---------------------------- MODULE Spec2Model ----------------------------
(***************************************************************************)
(* Subscription business-intelligence calculators of the Stripe            *)
(* subscription BI template: billing normalisation, the active and         *)
(* currency filters, and the MRR, ARPU, active-subscriber, churn, LTV and  *)
(* MRR-expansion tools.                                                    *)
(*                                                                         *)
(* Number representation.  The source computes in IEEE doubles; the model  *)
(* computes in exact integers of fixed scale:                              *)
(*   money            hundredths of a currency unit ("H": 2000 = 20.00)    *)
(*   unit_amount      minor units (cents), as in the source                *)
(*   expansion money  thousandths of a currency unit ("M"), because        *)
(*                    subscriptionMRR * 0.6 is not rounded by the source   *)
(*   rates            hundredths of a percent (4000 = 40.00 %)             *)
(*   time             seconds                                              *)
(* Math.round(x * 100) / 100 therefore becomes MathRound(n, d) for the     *)
(* exact quotient x * 100 = n / d.  Binary rounding error of doubles is    *)
(* not modelled.                                                           *)
(***************************************************************************)
EXTENDS Integers, Sequences, FiniteSets, TLC

VARIABLES snapshot, result, ltvCall, probe, mcp, run

vars == <<snapshot, result, ltvCall, probe, mcp, run>>

-----------------------------------------------------------------------------
(* Bounds of the model *)

\* largest |amount| (in hundredths) handed to normalizeBillingPeriodToMonthly,
\* besides the reference amounts of the unit tests
MaxAmountH == 26

\* largest interval_count
MaxIntervalCount == 3

\* most line items in a subscription handed to calculateSubscriptionMRR
MaxItems == 2

-----------------------------------------------------------------------------
(* JavaScript primitives *)

\* Math.round(n / d) for d > 0: nearest integer, ties toward +Infinity
MathRound(n, d) ==
  LET q == n \div d
  IN IF 2 * (n - q * d) >= d THEN q + 1 ELSE q

\* String.prototype.toLowerCase on the currency codes of the model
ToLowerCase(s) ==
  CASE s = "USD" -> "usd"
    [] s = "EUR" -> "eur"
    [] OTHER -> s

\* the value undefined, where the source has a string or undefined
Undefined == "<undefined>"

\* a thrown Error and a normal completion of a function
Throw(msg) == [threw |-> TRUE, message |-> msg]

Return(v) == [threw |-> FALSE, value |-> v]

-----------------------------------------------------------------------------
(* src/utils/subscription-calculations.ts *)

Intervals == {"day", "week", "month", "year"}

Statuses ==
  {"active", "past_due", "unpaid", "canceled", "incomplete",
   "incomplete_expired", "trialing", "paused"}

\* normalizeBillingPeriodToMonthly dividing a yearly amount by 12 only
normalizeBillingPeriodToMonthly_yearIgnoresCount(amount, interval, intervalCount) ==
  IF interval \notin Intervals
  THEN Throw(<<"Unsupported billing interval", interval>>)
  ELSE Return(
    [originalAmount |-> amount,
     originalInterval |-> interval,
     originalIntervalCount |-> intervalCount,
     normalizedMonthlyAmount |->
       CASE interval = "day" -> MathRound(amount * 3044, 100 * intervalCount)
         [] interval = "week" -> MathRound(amount * 433, 100 * intervalCount)
         [] interval = "month" -> MathRound(amount, intervalCount)
         [] interval = "year" -> MathRound(amount, 12)])

\* normalizeBillingPeriodToMonthly whose default case treats the amount as monthly
normalizeBillingPeriodToMonthly_defaultsToMonth(amount, interval, intervalCount) ==
  Return(
    [originalAmount |-> amount,
     originalInterval |-> interval,
     originalIntervalCount |-> intervalCount,
     normalizedMonthlyAmount |->
       CASE interval = "day" -> MathRound(amount * 3044, 100 * intervalCount)
         [] interval = "week" -> MathRound(amount * 433, 100 * intervalCount)
         [] interval = "year" -> MathRound(amount, intervalCount * 12)
         [] OTHER -> MathRound(amount, intervalCount)])

\* amount is in hundredths; so is normalizedMonthlyAmount
normalizeBillingPeriodToMonthly(amount, interval, intervalCount) ==
  IF interval \notin Intervals
  THEN Throw(<<"Unsupported billing interval", interval>>)
  ELSE Return(
    [originalAmount |-> amount,
     originalInterval |-> interval,
     originalIntervalCount |-> intervalCount,
     normalizedMonthlyAmount |->
       CASE interval = "day" -> MathRound(amount * 3044, 100 * intervalCount)
         [] interval = "week" -> MathRound(amount * 433, 100 * intervalCount)
         [] interval = "month" -> MathRound(amount, intervalCount)
         [] interval = "year" -> MathRound(amount, intervalCount * 12)])

\* isSubscriptionActiveForMRR with past_due left out of the active statuses
isSubscriptionActiveForMRR_noPastDue(subscription, includeTrialSubscriptions) ==
  LET activeStatuses ==
        IF includeTrialSubscriptions
        THEN <<"active", "trialing">>
        ELSE <<"active">>
  IN \E i \in 1..Len(activeStatuses) : activeStatuses[i] = subscription.status

isSubscriptionActiveForMRR(subscription, includeTrialSubscriptions) ==
  LET activeStatuses ==
        IF includeTrialSubscriptions
        THEN <<"active", "past_due", "trialing">>
        ELSE <<"active", "past_due">>
  IN \E i \in 1..Len(activeStatuses) : activeStatuses[i] = subscription.status

\* !item.price.unit_amount: null, undefined or 0
NoUnitAmount(price) ==
  \/ "unit_amount" \notin DOMAIN price
  \/ price.unit_amount = 0

\* !item.price.recurring: null or undefined
NoRecurring(price) == "recurring" \notin DOMAIN price

RECURSIVE SubscriptionMRRLoop(_, _, _)
\* the for loop of calculateSubscriptionMRR from item i on, totalMRR so far
SubscriptionMRRLoop(items, i, totalMRR) ==
  IF i > Len(items)
  THEN Return(MathRound(totalMRR, 1))
  ELSE LET item == items[i] IN
       IF NoUnitAmount(item.price) \/ NoRecurring(item.price)
       THEN SubscriptionMRRLoop(items, i + 1, totalMRR)
       ELSE LET normalization ==
                  normalizeBillingPeriodToMonthly(
                    item.price.unit_amount * item.quantity,
                    item.price.recurring.interval,
                    item.price.recurring.interval_count)
            IN IF normalization.threw
               THEN normalization
               ELSE SubscriptionMRRLoop(items, i + 1,
                      totalMRR + normalization.value.normalizedMonthlyAmount)

\* the items before the first one that lacks unit_amount or recurring
RECURSIVE UntilUnpriced(_)
UntilUnpriced(items) ==
  IF items = <<>> THEN <<>>
  ELSE IF NoUnitAmount(Head(items).price) \/ NoRecurring(Head(items).price)
       THEN <<>>
       ELSE <<Head(items)>> \o UntilUnpriced(Tail(items))

\* calculateSubscriptionMRR leaving the loop (break) at an item it should skip
calculateSubscriptionMRR_breaksAtUnpriced(subscription) ==
  SubscriptionMRRLoop(UntilUnpriced(subscription.items), 1, 0)

calculateSubscriptionMRR(subscription) ==
  SubscriptionMRRLoop(subscription.items, 1, 0)

\* `${intervalCount}-${interval}` is kept as the pair of its parts
getBillingIntervalDescription(interval, intervalCount) ==
  IF intervalCount = 1 THEN <<interval>> ELSE <<intervalCount, interval>>

\* if (subscription.customer): neither undefined nor the empty string
HasCustomer(subscription) ==
  subscription.customer # Undefined /\ subscription.customer # ""

calculateUniqueCustomerCount(subscriptions) ==
  Cardinality({subscriptions[i].customer :
                 i \in {j \in 1..Len(subscriptions) : HasCustomer(subscriptions[j])}})

\* without customers the revenue is returned undivided
calculateARPU_totalWhenNoCustomers(totalMRR, customerCount) ==
  IF customerCount = 0 THEN totalMRR ELSE MathRound(totalMRR, customerCount)

calculateARPU(totalMRR, customerCount) ==
  IF customerCount = 0 THEN 0 ELSE MathRound(totalMRR, customerCount)

-----------------------------------------------------------------------------
(* The tools.  A context is the record of the parameters of execute; the   *)
(* subscriptions parameter is a value [type, data]: an array with its      *)
(* elements, or a value that is no array (a string, undefined).            *)
(* calculatedAt is the clock reading `now' of the execution (one reading   *)
(* per synchronous execution); explanation strings are left out.           *)

DaySeconds == 24 * 60 * 60

NoDataMessage == <<"No subscription data provided">>

\* the check without its length test
NoSubscriptionData_arrayOnly(subscriptions) == subscriptions.type # "array"

\* !Array.isArray(subscriptions) || subscriptions.length === 0
NoSubscriptionData(subscriptions) ==
  subscriptions.type # "array" \/ Len(subscriptions.data) = 0

\* the catch clause of every execute: the message gets the tool's prefix
Rethrow(prefix, thrown) == Throw(<<prefix>> \o thrown.message)

\* sub.items.data.some(item => item.price.currency === currency.toLowerCase())
SomeItemInCurrency(sub, currency) ==
  \E i \in 1..Len(sub.items) : sub.items[i].price.currency = ToLowerCase(currency)

\* currency ? subscriptions.filter(...) : subscriptions; the empty string
\* stands for an absent (or empty) currency parameter
CurrencyFilter(subscriptions, currency) ==
  IF currency # ""
  THEN SelectSeq(subscriptions, LAMBDA sub : SomeItemInCurrency(sub, currency))
  ELSE subscriptions

\* typedSubscriptions.filter(sub => isSubscriptionActiveForMRR(sub, includeTrials))
ActiveFilter(subscriptions, includeTrialSubscriptions) ==
  SelectSeq(subscriptions,
            LAMBDA sub : isSubscriptionActiveForMRR(sub, includeTrialSubscriptions))

\* currency || 'usd'
PrimaryCurrency(currency) == IF currency # "" THEN currency ELSE "usd"

\* firstItem?.price?.recurring ? getBillingIntervalDescription(...) : 'unknown'
BillingIntervalOf(subscription) ==
  IF Len(subscription.items) > 0 /\ ~NoRecurring(subscription.items[1].price)
  THEN getBillingIntervalDescription(
         subscription.items[1].price.recurring.interval,
         subscription.items[1].price.recurring.interval_count)
  ELSE <<"unknown">>

RECURSIVE MRRToolLoop(_, _, _, _)
\* the loop over filteredSubscriptions of stripeMRRTool.execute
MRRToolLoop(subs, i, totalMRR, breakdown) ==
  IF i > Len(subs)
  THEN Return([totalMRR |-> totalMRR, breakdown |-> breakdown])
  ELSE LET subscriptionMRR == calculateSubscriptionMRR(subs[i]) IN
       IF subscriptionMRR.threw
       THEN subscriptionMRR
       ELSE MRRToolLoop(subs, i + 1, totalMRR + subscriptionMRR.value,
              Append(breakdown,
                [subscriptionId |-> subs[i].id,
                 customerMRR |-> subscriptionMRR.value,
                 billingInterval |-> BillingIntervalOf(subs[i])]))

\* stripeMRRTool.execute from the loop on: the sums, the rounding, the result
MRRToolResult(filteredSubscriptions, context, now) ==
  LET loop == MRRToolLoop(filteredSubscriptions, 1, 0, <<>>)
  IN IF loop.threw
     THEN Rethrow("Failed to calculate MRR", loop)
     ELSE Return(
            [totalMRR |-> MathRound(loop.value.totalMRR, 1),
             currency |-> PrimaryCurrency(context.currency),
             activeSubscriptions |-> Len(filteredSubscriptions),
             breakdown |-> loop.value.breakdown,
             calculatedAt |-> now])

\* stripeMRRTool.execute filtering by status only
stripeMRRTool_noCurrencyFilter(context, now) ==
  IF NoSubscriptionData(context.subscriptions)
  THEN Rethrow("Failed to calculate MRR", Throw(NoDataMessage))
  ELSE MRRToolResult(
         ActiveFilter(context.subscriptions.data, context.includeTrialSubscriptions),
         context, now)

\* stripeMRRTool.execute treating an empty filtered list like an empty snapshot
stripeMRRTool_failsWhenNothingSurvives(context, now) ==
  IF NoSubscriptionData(context.subscriptions)
  THEN Rethrow("Failed to calculate MRR", Throw(NoDataMessage))
  ELSE LET filteredSubscriptions ==
             CurrencyFilter(
               ActiveFilter(context.subscriptions.data, context.includeTrialSubscriptions),
               context.currency)
       IN IF filteredSubscriptions = <<>>
          THEN Rethrow("Failed to calculate MRR", Throw(NoDataMessage))
          ELSE MRRToolResult(filteredSubscriptions, context, now)

stripeMRRTool(context, now) ==
  IF NoSubscriptionData(context.subscriptions)
  THEN Rethrow("Failed to calculate MRR", Throw(NoDataMessage))
  ELSE LET activeSubscriptions ==
             ActiveFilter(context.subscriptions.data, context.includeTrialSubscriptions)
           filteredSubscriptions == CurrencyFilter(activeSubscriptions, context.currency)
       IN MRRToolResult(filteredSubscriptions, context, now)

RECURSIVE ARPUToolLoop(_, _, _, _)
\* the loop over filteredSubscriptions of stripeARPUTool.execute
ARPUToolLoop(subs, i, totalMRR, breakdown) ==
  IF i > Len(subs)
  THEN Return([totalMRR |-> totalMRR, breakdown |-> breakdown])
  ELSE LET subscriptionMRR == calculateSubscriptionMRR(subs[i]) IN
       IF subscriptionMRR.threw
       THEN subscriptionMRR
       ELSE ARPUToolLoop(subs, i + 1, totalMRR + subscriptionMRR.value,
              Append(breakdown,
                [customerId |-> subs[i].customer,
                 subscriptionId |-> subs[i].id,
                 customerMRR |-> subscriptionMRR.value,
                 billingInterval |-> BillingIntervalOf(subs[i])]))

\* stripeARPUTool.execute without its currency filter
stripeARPUTool_noCurrencyFilter(context, now) ==
  IF NoSubscriptionData(context.subscriptions)
  THEN Rethrow("Failed to calculate ARPU", Throw(NoDataMessage))
  ELSE LET filteredSubscriptions ==
             ActiveFilter(context.subscriptions.data, context.includeTrialSubscriptions)
           loop == ARPUToolLoop(filteredSubscriptions, 1, 0, <<>>)
       IN IF loop.threw
          THEN Rethrow("Failed to calculate ARPU", loop)
          ELSE LET uniqueCustomers == calculateUniqueCustomerCount(filteredSubscriptions)
               IN Return(
                 [arpu |-> calculateARPU(loop.value.totalMRR, uniqueCustomers),
                  totalMRR |-> MathRound(loop.value.totalMRR, 1),
                  uniqueCustomers |-> uniqueCustomers,
                  currency |-> PrimaryCurrency(context.currency),
                  activeSubscriptions |-> Len(filteredSubscriptions),
                  breakdown |-> loop.value.breakdown,
                  calculatedAt |-> now])

\* stripeARPUTool.execute dividing by the number of subscriptions
stripeARPUTool_perSubscription(context, now) ==
  IF NoSubscriptionData(context.subscriptions)
  THEN Rethrow("Failed to calculate ARPU", Throw(NoDataMessage))
  ELSE LET activeSubscriptions ==
             ActiveFilter(context.subscriptions.data, context.includeTrialSubscriptions)
           filteredSubscriptions == CurrencyFilter(activeSubscriptions, context.currency)
           loop == ARPUToolLoop(filteredSubscriptions, 1, 0, <<>>)
       IN IF loop.threw
          THEN Rethrow("Failed to calculate ARPU", loop)
          ELSE Return(
                 [arpu |-> calculateARPU(loop.value.totalMRR, Len(filteredSubscriptions)),
                  totalMRR |-> MathRound(loop.value.totalMRR, 1),
                  uniqueCustomers |-> Len(filteredSubscriptions),
                  currency |-> PrimaryCurrency(context.currency),
                  activeSubscriptions |-> Len(filteredSubscriptions),
                  breakdown |-> loop.value.breakdown,
                  calculatedAt |-> now])

stripeARPUTool(context, now) ==
  IF NoSubscriptionData(context.subscriptions)
  THEN Rethrow("Failed to calculate ARPU", Throw(NoDataMessage))
  ELSE LET activeSubscriptions ==
             ActiveFilter(context.subscriptions.data, context.includeTrialSubscriptions)
           filteredSubscriptions == CurrencyFilter(activeSubscriptions, context.currency)
           loop == ARPUToolLoop(filteredSubscriptions, 1, 0, <<>>)
       IN IF loop.threw
          THEN Rethrow("Failed to calculate ARPU", loop)
          ELSE LET uniqueCustomers == calculateUniqueCustomerCount(filteredSubscriptions)
               IN Return(
                 [arpu |-> calculateARPU(loop.value.totalMRR, uniqueCustomers),
                  totalMRR |-> MathRound(loop.value.totalMRR, 1),
                  uniqueCustomers |-> uniqueCustomers,
                  currency |-> PrimaryCurrency(context.currency),
                  activeSubscriptions |-> Len(filteredSubscriptions),
                  breakdown |-> loop.value.breakdown,
                  calculatedAt |-> now])

\* the counts of a Record<string, number> filled by (counts[k] || 0) + 1
CountBy(keys) ==
  [k \in {keys[i] : i \in 1..Len(keys)} |->
     Cardinality({i \in 1..Len(keys) : keys[i] = k})]

\* only the subscriptions that count as active, trials included, are grouped
groupSubscriptionsByStatus_activeOnly(subscriptions) ==
  CountBy([i \in 1..Len(ActiveFilter(subscriptions, TRUE)) |->
             ActiveFilter(subscriptions, TRUE)[i].status])

groupSubscriptionsByStatus(subscriptions) ==
  CountBy([i \in 1..Len(subscriptions) |-> subscriptions[i].status])

calculateSubscriptionGrowthMetrics(subscriptions, daysBack, now) ==
  LET cutoffTimestamp == now - daysBack * DaySeconds
      newSubscriptions ==
        Cardinality({i \in 1..Len(subscriptions) : subscriptions[i].created >= cutoffTimestamp})
      existingSubscriptions == Len(subscriptions) - newSubscriptions
  IN [newSubscriptions |-> newSubscriptions,
      existingSubscriptions |-> existingSubscriptions,
      growthRate |->
        IF existingSubscriptions > 0
        THEN MathRound(newSubscriptions * 10000, existingSubscriptions)
        ELSE 0]

\* subscription.canceled_at && ...: present, not null and not 0
HasCanceledAt(subscription) ==
  "canceled_at" \in DOMAIN subscription /\ subscription.canceled_at # 0

\* the condition of the loop body of identifyChurnedCustomers
CanceledInPeriod(subscription, periodStartTimestamp, periodEndTimestamp) ==
  /\ subscription.status = "canceled"
  /\ HasCanceledAt(subscription)
  /\ subscription.canceled_at >= periodStartTimestamp
  /\ subscription.canceled_at <= periodEndTimestamp

identifyChurnedCustomers(subscriptions, periodStartTimestamp, periodEndTimestamp) ==
  LET churnedSubscriptions ==
        SelectSeq(subscriptions,
          LAMBDA sub : CanceledInPeriod(sub, periodStartTimestamp, periodEndTimestamp))
  IN [churnedCustomers |->
        {churnedSubscriptions[i].customer : i \in 1..Len(churnedSubscriptions)},
      churnedSubscriptions |-> churnedSubscriptions]

\* the ratio is not turned into a percentage
calculateChurnRate_asFraction(totalCustomersAtStart, churnedCustomersCount) ==
  IF totalCustomersAtStart = 0
  THEN 0
  ELSE MathRound(churnedCustomersCount * 100, totalCustomersAtStart)

calculateChurnRate(totalCustomersAtStart, churnedCustomersCount) ==
  IF totalCustomersAtStart = 0
  THEN 0
  ELSE MathRound(churnedCustomersCount * 10000, totalCustomersAtStart)

groupChurnedByReason(churnedSubscriptions) ==
  CountBy([i \in 1..Len(churnedSubscriptions) |->
             LET sub == churnedSubscriptions[i]
             IN IF sub.cancel_at_period_end THEN "scheduled_cancellation"
                ELSE IF sub.status = "canceled" THEN "immediate_cancellation"
                ELSE "unknown"])

RECURSIVE AllItems(_)
\* the line items of the subscriptions, in the order of the nested loops
AllItems(subscriptions) ==
  IF subscriptions = <<>> THEN <<>>
  ELSE Head(subscriptions).items \o AllItems(Tail(subscriptions))

RECURSIVE FirstOccurrences(_, _)
\* the positions of a sequence whose key occurs there for the first time:
\* the insertion order of a Map
FirstOccurrences(keys, i) ==
  IF i > Len(keys) THEN <<>>
  ELSE IF \E j \in 1..(i - 1) : keys[j] = keys[i]
       THEN FirstOccurrences(keys, i + 1)
       ELSE <<i>> \o FirstOccurrences(keys, i + 1)

RECURSIVE InsertByCount(_, _)
\* e placed after the entries whose count is not below its own
InsertByCount(sorted, e) ==
  IF sorted = <<>> THEN <<e>>
  ELSE IF Head(sorted).count >= e.count
       THEN <<Head(sorted)>> \o InsertByCount(Tail(sorted), e)
       ELSE <<e>> \o sorted

RECURSIVE SortByCountDescending(_)
\* Array.prototype.sort((a, b) => b.count - a.count), which is stable
SortByCountDescending(entries) ==
  IF entries = <<>> THEN <<>>
  ELSE InsertByCount(SortByCountDescending(SubSeq(entries, 1, Len(entries) - 1)),
                     entries[Len(entries)])

\* the interval label of a plan of the churn tool
ChurnedPlanInterval(item) ==
  IF NoRecurring(item.price) THEN <<"unknown">>
  ELSE getBillingIntervalDescription(item.price.recurring.interval,
                                     item.price.recurring.interval_count)

\* the interval label of a plan of the active-subscribers tool
ActivePlanInterval(item) ==
  IF NoRecurring(item.price) THEN "unknown" ELSE item.price.recurring.interval

\* planMap and its sort; the entry's interval label is taken from the first
\* item of the plan, described when the churn tool asks (planName is left out)
PlanBreakdown(subscriptions, described) ==
  LET Interval(item) ==
        IF described THEN ChurnedPlanInterval(item) ELSE ActivePlanInterval(item)
      items == AllItems(subscriptions)
      ids == [i \in 1..Len(items) |-> items[i].price.id]
      first == FirstOccurrences(ids, 1)
  IN SortByCountDescending(
       [n \in 1..Len(first) |->
          [planId |-> ids[first[n]],
           count |-> Cardinality({i \in 1..Len(items) : ids[i] = ids[first[n]]}),
           currency |-> items[first[n]].price.currency,
           interval |-> Interval(items[first[n]])]])

\* the Set customersAtStart after the loop over the subscriptions; the
\* customer is added as it is, absent or not
customersAtStart(subs, periodStartTimestamp) ==
  {subs[i].customer :
     i \in {j \in 1..Len(subs) : subs[j].created < periodStartTimestamp}}

\* a customer already present at the start is not acquired again
customersAcquiredInPeriod_newOnly(subs, periodStartTimestamp, periodEndTimestamp) ==
  {subs[i].customer :
     i \in {j \in 1..Len(subs) :
              /\ subs[j].created >= periodStartTimestamp
              /\ subs[j].created <= periodEndTimestamp}}
  \ {subs[i].customer :
       i \in {j \in 1..Len(subs) : subs[j].created < periodStartTimestamp}}

\* the Set customersAcquiredInPeriod after the same loop (the else-if branch)
customersAcquiredInPeriod(subs, periodStartTimestamp, periodEndTimestamp) ==
  {subs[i].customer :
     i \in {j \in 1..Len(subs) :
              /\ ~(subs[j].created < periodStartTimestamp)
              /\ subs[j].created >= periodStartTimestamp
              /\ subs[j].created <= periodEndTimestamp}}

stripeChurnRateTool(context, now) ==
  IF NoSubscriptionData(context.subscriptions)
  THEN Rethrow("Failed to calculate churn rate", Throw(NoDataMessage))
  ELSE LET periodEndTimestamp == now
           periodStartTimestamp == periodEndTimestamp - context.periodDays * DaySeconds
           subs == CurrencyFilter(context.subscriptions.data, context.currency)
           atStart == customersAtStart(subs, periodStartTimestamp)
           acquiredInPeriod ==
             customersAcquiredInPeriod(subs, periodStartTimestamp, periodEndTimestamp)
           totalCustomersAtStart == Cardinality(atStart)
           newCustomersInPeriod == Cardinality(acquiredInPeriod)
           churned == identifyChurnedCustomers(subs, periodStartTimestamp, periodEndTimestamp)
           churnedCustomersCount == Cardinality(churned.churnedCustomers)
           churnedNewCustomers ==
             Cardinality(churned.churnedCustomers \cap acquiredInPeriod)
           churnRate ==
             IF totalCustomersAtStart > 0
             THEN calculateChurnRate(totalCustomersAtStart, churnedCustomersCount)
             ELSE IF newCustomersInPeriod > 0
                  THEN MathRound(churnedNewCustomers * 10000, newCustomersInPeriod)
                  ELSE 0
       IN Return(
            [churnRate |-> churnRate,
             churnedCustomersCount |-> churnedCustomersCount,
             totalCustomersAtStart |-> totalCustomersAtStart,
             newCustomersInPeriod |-> newCustomersInPeriod,
             churnedNewCustomers |-> churnedNewCustomers,
             churnedSubscriptionsCount |-> Len(churned.churnedSubscriptions),
             reasonBreakdown |-> groupChurnedByReason(churned.churnedSubscriptions),
             planBreakdown |->
               PlanBreakdown(churned.churnedSubscriptions, TRUE),
             period |-> [startDate |-> periodStartTimestamp,
                         endDate |-> periodEndTimestamp,
                         days |-> context.periodDays],
             retentionRate |-> MathRound(10000 - churnRate, 1),
             calculationMethod |->
               IF totalCustomersAtStart > 0 THEN "traditional"
               ELSE IF newCustomersInPeriod > 0 THEN "new_business"
               ELSE "no_customers",
             calculatedAt |-> now])

stripeActiveSubscribersTool(context, now) ==
  IF NoSubscriptionData(context.subscriptions)
  THEN Rethrow("Failed to analyze active subscribers", Throw(NoDataMessage))
  ELSE LET currencyFilteredSubscriptions ==
             CurrencyFilter(context.subscriptions.data, context.currency)
           activeSubscriptions ==
             ActiveFilter(currencyFilteredSubscriptions, context.includeTrialSubscriptions)
           growth ==
             calculateSubscriptionGrowthMetrics(activeSubscriptions,
                                                context.growthPeriodDays, now)
       IN Return(
            [totalActiveSubscriptions |-> Len(activeSubscriptions),
             uniqueActiveCustomers |-> calculateUniqueCustomerCount(activeSubscriptions),
             statusBreakdown |-> groupSubscriptionsByStatus(currencyFilteredSubscriptions),
             growth |-> [newSubscriptions |-> growth.newSubscriptions,
                         existingSubscriptions |-> growth.existingSubscriptions,
                         growthRate |-> growth.growthRate,
                         periodDays |-> context.growthPeriodDays],
             planBreakdown |->
               PlanBreakdown(activeSubscriptions, FALSE),
             filters |-> [includeTrialSubscriptions |-> context.includeTrialSubscriptions,
                          currency |-> context.currency],
             calculatedAt |-> now])

\* calculateItemMRR of the expansion tool, in hundredths
calculateItemMRR(item, quantity) ==
  IF NoUnitAmount(item.price) \/ NoRecurring(item.price)
  THEN Return(0)
  ELSE LET normalization ==
             normalizeBillingPeriodToMonthly(
               item.price.unit_amount * quantity,
               item.price.recurring.interval,
               item.price.recurring.interval_count)
       IN IF normalization.threw
          THEN normalization
          ELSE Return(normalization.value.normalizedMonthlyAmount)

\* the subscriptions in the order in which the nested loops over
\* customerSubscriptions (a Map, iterated in insertion order) visit them
GroupedByCustomer(subscriptions) ==
  LET active == SelectSeq(subscriptions, LAMBDA sub : isSubscriptionActiveForMRR(sub, FALSE))
      customers == [i \in 1..Len(active) |-> active[i].customer]
      first == FirstOccurrences(customers, 1)
      RECURSIVE Groups(_)
      Groups(n) ==
        IF n > Len(first) THEN <<>>
        ELSE SelectSeq(active, LAMBDA sub : sub.customer = customers[first[n]])
               \o Groups(n + 1)
  IN Groups(1)

avgMRRThreshold == 50

RECURSIVE ExpansionItemLoop(_, _, _)
\* the loop over subscription.items.data looking for quantity > 1; acc holds
\* expansionBreakdown, totalExpansionMRR (thousandths), totalUpgrades and
\* startingMRR (hundredths)
ExpansionItemLoop(subscription, k, acc) ==
  IF k > Len(subscription.items)
  THEN Return(acc)
  ELSE LET item == subscription.items[k] IN
       IF item.quantity > 1
       THEN LET baseItemMRR == calculateItemMRR(item, 1)
                totalItemMRR == calculateItemMRR(item, item.quantity)
            IN IF baseItemMRR.threw THEN baseItemMRR
               ELSE IF totalItemMRR.threw THEN totalItemMRR
               ELSE LET quantityExpansion == (totalItemMRR.value - baseItemMRR.value) * 10
                    IN IF quantityExpansion > 0
                       THEN ExpansionItemLoop(subscription, k + 1,
                              [acc EXCEPT
                                 !.totalExpansionMRR = @ + quantityExpansion,
                                 !.totalUpgrades = @ + 1,
                                 !.expansionBreakdown = Append(@,
                                    [subscriptionId |-> subscription.id,
                                     customerId |-> subscription.customer,
                                     oldMRR |-> baseItemMRR.value * 10,
                                     newMRR |-> totalItemMRR.value * 10,
                                     expansionAmount |-> quantityExpansion,
                                     changeType |-> "quantity_increase",
                                     planDetails |-> [newPlan |-> item.price.id,
                                                      oldQuantity |-> 1,
                                                      newQuantity |-> item.quantity],
                                     changeDate |-> subscription.created])])
                       ELSE ExpansionItemLoop(subscription, k + 1, acc)
       ELSE ExpansionItemLoop(subscription, k + 1, acc)

\* the upgrade branch taken from the threshold on, the threshold included
ExpansionUpgrade_fromThreshold(subscription, subscriptionMRR, periodStartTimestamp, periodEndTimestamp, acc) ==
  IF /\ subscription.created >= periodStartTimestamp
     /\ subscription.created <= periodEndTimestamp
     /\ subscriptionMRR >= 50 * 100
  THEN LET estimatedOldMRR ==
             IF subscriptionMRR * 6 >= 20 * 1000 THEN subscriptionMRR * 6 ELSE 20 * 1000
           expansionAmount == subscriptionMRR * 10 - estimatedOldMRR
       IN [acc EXCEPT
             !.totalExpansionMRR = @ + expansionAmount,
             !.totalUpgrades = @ + 1,
             !.expansionBreakdown = Append(@,
                [subscriptionId |-> subscription.id,
                 customerId |-> subscription.customer,
                 oldMRR |-> estimatedOldMRR,
                 newMRR |-> subscriptionMRR * 10,
                 expansionAmount |-> expansionAmount,
                 changeType |-> "upgrade",
                 planDetails |-> [newPlan |-> subscription.items[1].price.id,
                                  newQuantity |-> subscription.items[1].quantity],
                 changeDate |-> subscription.created])]
  ELSE acc

\* the upgrade branch of the loop body: a subscription created in the period
\* whose MRR is above the threshold; estimatedOldMRR = max(MRR * 0.6, 20)
ExpansionUpgrade(subscription, subscriptionMRR, periodStartTimestamp, periodEndTimestamp, acc) ==
  IF /\ subscription.created >= periodStartTimestamp
     /\ subscription.created <= periodEndTimestamp
     /\ subscriptionMRR > avgMRRThreshold * 100
  THEN LET estimatedOldMRR ==
             IF subscriptionMRR * 6 >= 20 * 1000 THEN subscriptionMRR * 6 ELSE 20 * 1000
           expansionAmount == subscriptionMRR * 10 - estimatedOldMRR
       IN [acc EXCEPT
             !.totalExpansionMRR = @ + expansionAmount,
             !.totalUpgrades = @ + 1,
             !.expansionBreakdown = Append(@,
                [subscriptionId |-> subscription.id,
                 customerId |-> subscription.customer,
                 oldMRR |-> estimatedOldMRR,
                 newMRR |-> subscriptionMRR * 10,
                 expansionAmount |-> expansionAmount,
                 changeType |-> "upgrade",
                 planDetails |-> [newPlan |-> subscription.items[1].price.id,
                                  newQuantity |-> subscription.items[1].quantity],
                 changeDate |-> subscription.created])]
  ELSE acc

RECURSIVE ExpansionLoop(_, _, _, _, _)
\* the nested loops over customerSubscriptions
ExpansionLoop(subs, i, periodStartTimestamp, periodEndTimestamp, acc) ==
  IF i > Len(subs)
  THEN Return(acc)
  ELSE LET subscriptionMRR == calculateSubscriptionMRR(subs[i]) IN
       IF subscriptionMRR.threw
       THEN subscriptionMRR
       ELSE LET started == [acc EXCEPT !.startingMRR = @ + subscriptionMRR.value]
                upgraded == ExpansionUpgrade(subs[i], subscriptionMRR.value,
                              periodStartTimestamp, periodEndTimestamp, started)
                itemsDone == ExpansionItemLoop(subs[i], 1, upgraded)
            IN IF itemsDone.threw
               THEN itemsDone
               ELSE ExpansionLoop(subs, i + 1, periodStartTimestamp,
                                  periodEndTimestamp, itemsDone.value)

\* money fields of the result: expansionMRR and averageExpansionPerUpgrade in
\* hundredths (they are rounded), netExpansion and the breakdown amounts in
\* thousandths (they are not)
stripeMRRExpansionTool(context, now) ==
  IF NoSubscriptionData(context.subscriptions)
  THEN Rethrow("Failed to calculate MRR expansion", Throw(NoDataMessage))
  ELSE LET periodEndTimestamp == now
           periodStartTimestamp == periodEndTimestamp - context.periodDays * DaySeconds
           currencyFilteredSubscriptions ==
             CurrencyFilter(context.subscriptions.data, context.currency)
           loop == ExpansionLoop(GroupedByCustomer(currencyFilteredSubscriptions), 1,
                     periodStartTimestamp, periodEndTimestamp,
                     [expansionBreakdown |-> <<>>, totalExpansionMRR |-> 0,
                      totalUpgrades |-> 0, startingMRR |-> 0])
       IN IF loop.threw
          THEN Rethrow("Failed to calculate MRR expansion", loop)
          ELSE LET acc == loop.value IN
               Return(
                 [expansionMRR |-> MathRound(acc.totalExpansionMRR, 10),
                  expansionRate |->
                    IF acc.startingMRR > 0
                    THEN MathRound(acc.totalExpansionMRR * 1000, acc.startingMRR)
                    ELSE 0,
                  totalUpgrades |-> acc.totalUpgrades,
                  totalDowngrades |-> 0,
                  netExpansion |-> acc.totalExpansionMRR,
                  averageExpansionPerUpgrade |->
                    IF acc.totalUpgrades > 0
                    THEN MathRound(acc.totalExpansionMRR, 10 * acc.totalUpgrades)
                    ELSE 0,
                  currency |-> PrimaryCurrency(context.currency),
                  period |-> [startDate |-> periodStartTimestamp,
                              endDate |-> periodEndTimestamp,
                              days |-> context.periodDays],
                  expansionBreakdown |-> acc.expansionBreakdown,
                  calculatedAt |-> now])

\* Number.MAX_SAFE_INTEGER (2^53 - 1), saturated to the largest integer of the
\* checker; only its order against the two caps matters
MAX_SAFE_INTEGER == 2147483647

\* no ceiling below Number.MAX_SAFE_INTEGER
LTVCap_none == MAX_SAFE_INTEGER

\* ltv > 1000000, in hundredths
LTVCap == 1000000 * 100

\* no ceiling below Number.MAX_SAFE_INTEGER
MonthsToChurnCap_none == MAX_SAFE_INTEGER

\* monthsToChurn > 10000, in hundredths
MonthsToChurnCap == 10000 * 100

\* the context LTV passes to stripeARPUTool.execute
LTVARPUContext(context) ==
  [includeTrialSubscriptions |-> context.includeTrialSubscriptions,
   currency |-> context.currency,
   subscriptions |-> context.subscriptions]

\* churnPeriodDays is not passed on: the churn tool falls back to 30 days
LTVChurnContext_defaultPeriod(context) ==
  [periodDays |-> 30,
   currency |-> context.currency,
   subscriptions |-> context.subscriptions]

\* the context LTV passes to stripeChurnRateTool.execute
LTVChurnContext(context) ==
  [periodDays |-> context.churnPeriodDays,
   currency |-> context.currency,
   subscriptions |-> context.subscriptions]

RECURSIVE GCD(_, _)
GCD(a, b) == IF b = 0 THEN a ELSE GCD(b, a % b)

\* Math.round(a * b / d) for a >= 0, b > 0, d > 0, computed on the reduced
\* fraction b / d and by quotient and remainder of a, so that no intermediate
\* product leaves the range of the checker's integers
RoundedProduct(a, b, d) ==
  LET g == GCD(b, d)
      bb == b \div g
      dd == d \div g
      q == a \div dd
  IN q * bb + MathRound((a - q * dd) * bb, dd)

\* the churn period is taken to be a month whatever churnPeriodDays is
LTVCombine_churnTakenAsMonthly(context, arpuResult, churnRateResult, now) ==
  LET churnRateH == churnRateResult.churnRate
      ltv ==
        IF churnRateH = 0
        THEN 2147483647
        ELSE (arpuResult.arpu \div churnRateH) * 10000
               + ((2 * (arpuResult.arpu % churnRateH) * 10000 + churnRateH)
                    \div (2 * churnRateH))
      monthsToChurn ==
        IF churnRateH = 0
        THEN 2147483647
        ELSE (2 * 1000000 + churnRateH) \div (2 * churnRateH)
  IN [ltv |-> IF ltv > 1000000 * 100 THEN 1000000 * 100 ELSE ltv,
      arpu |-> arpuResult.arpu,
      churnRate |-> churnRateResult.churnRate,
      retentionRate |-> churnRateResult.retentionRate,
      monthsToChurn |->
        IF monthsToChurn > 10000 * 100 THEN 10000 * 100 ELSE monthsToChurn,
      currency |-> arpuResult.currency,
      totalCustomers |-> arpuResult.uniqueCustomers + churnRateResult.newCustomersInPeriod,
      activeSubscriptions |-> arpuResult.activeSubscriptions,
      churnedCustomers |-> churnRateResult.churnedCustomersCount,
      period |-> churnRateResult.period,
      calculatedAt |-> now,
      dependencyResults |-> [arpu |-> arpuResult, churnRate |-> churnRateResult]]

\* steps 3 and later of stripeLTVTool.execute, from the two sub-results.
\* ARPU / monthlyChurnRate * 100 = arpuH * 1000 * days / (3 * churnRateH);
\* every value computed here is finite, so isFinite never caps
LTVCombine(context, arpuResult, churnRateResult, now) ==
  LET churnRateH == churnRateResult.churnRate
      ltv ==
        IF churnRateH = 0
        THEN MAX_SAFE_INTEGER
        ELSE RoundedProduct(arpuResult.arpu, 1000 * context.churnPeriodDays, 3 * churnRateH)
      monthsToChurn ==
        IF churnRateH = 0
        THEN MAX_SAFE_INTEGER
        ELSE RoundedProduct(100, 1000 * context.churnPeriodDays, 3 * churnRateH)
  IN [ltv |-> IF ltv > LTVCap THEN LTVCap ELSE ltv,
      arpu |-> arpuResult.arpu,
      churnRate |-> churnRateResult.churnRate,
      retentionRate |-> churnRateResult.retentionRate,
      monthsToChurn |->
        IF monthsToChurn > MonthsToChurnCap THEN MonthsToChurnCap ELSE monthsToChurn,
      currency |-> arpuResult.currency,
      totalCustomers |-> arpuResult.uniqueCustomers + churnRateResult.newCustomersInPeriod,
      activeSubscriptions |-> arpuResult.activeSubscriptions,
      churnedCustomers |-> churnRateResult.churnedCustomersCount,
      period |-> churnRateResult.period,
      calculatedAt |-> now,
      dependencyResults |-> [arpu |-> arpuResult, churnRate |-> churnRateResult]]

-----------------------------------------------------------------------------
(* Inputs of the utility functions *)

\* amounts of the unit tests, in hundredths: 100, 333, 600, 1200
ReferenceAmounts == {10000, 33300, 60000, 120000}

Amounts == (-MaxAmountH..MaxAmountH) \cup ReferenceAmounts

IntervalInputs == Intervals \cup {"hour"}

\* prices as Stripe reports them: unit_amount and recurring may be null
ProbePrices ==
  [currency : {"usd"}, unit_amount : {0, 1000}, recurring : {[interval |-> "month", interval_count |-> 1], [interval |-> "month", interval_count |-> 3], [interval |-> "year", interval_count |-> 1], [interval |-> "hour", interval_count |-> 1]}]
  \cup [currency : {"usd"}, unit_amount : {500}]
  \cup [currency : {"usd"}, recurring : {[interval |-> "month", interval_count |-> 1], [interval |-> "hour", interval_count |-> 1]}]

ProbeItems == [price : ProbePrices, quantity : {1, 2}]

RECURSIVE SeqsUpTo(_, _)
SeqsUpTo(S, n) ==
  IF n = 0 THEN {<<>>}
  ELSE LET shorter == SeqsUpTo(S, n - 1)
       IN shorter \cup {Append(s, x) : s \in {t \in shorter : Len(t) = n - 1}, x \in S}

NoProbe == [fn |-> "none"]

NoResult == [tool |-> "none"]

NoCall == [pc |-> "idle"]

\* calls of the MCP client wrapper that can be in flight at once
MaxCallers == 2

\* MCP clients created in one behaviour
MaxClients == 2

Callers == 1..MaxCallers

\* let _mcpClient: MCPClient | null = null
Null == 0

\* a caller with no call of the wrapper in flight
Idle == [op |-> "idle"]

\* the module of the MCP client wrapper before its first use: client is
\* _mcpClient; the clients created so far are 1..created, and disconnects[c]
\* counts the calls of disconnect() on client c that were not rejected; calls holds the call of
\* each caller that is suspended at its await, and settled the call that
\* settled last
NoClient ==
  [client |-> Null, created |-> 0, disconnects |-> <<>>,
   calls |-> [p \in Callers |-> Idle], settled |-> Idle]

\* no workflow run
NoRun == [step |-> "none"]

-----------------------------------------------------------------------------
(* Specification of the utility functions: a caller applies one function   *)
(* to inputs of its choice and then drops the value.                       *)

InitUtil ==
  /\ snapshot = [type |-> "undefined"]
  /\ result = NoResult
  /\ ltvCall = NoCall
  /\ probe = NoProbe
  /\ mcp = NoClient
  /\ run = NoRun

CallNormalize ==
  /\ probe = NoProbe
  /\ \E amount \in Amounts, interval \in IntervalInputs, intervalCount \in 1..MaxIntervalCount :
       probe' = [fn |-> "normalizeBillingPeriodToMonthly",
                 amount |-> amount, interval |-> interval,
                 intervalCount |-> intervalCount,
                 out |-> normalizeBillingPeriodToMonthly(amount, interval, intervalCount)]
  /\ UNCHANGED <<snapshot, result, ltvCall, mcp, run>>

CallIsActive ==
  /\ probe = NoProbe
  /\ \E status \in Statuses, includeTrials \in BOOLEAN :
       probe' = [fn |-> "isSubscriptionActiveForMRR",
                 status |-> status, includeTrials |-> includeTrials,
                 out |-> isSubscriptionActiveForMRR([status |-> status], includeTrials)]
  /\ UNCHANGED <<snapshot, result, ltvCall, mcp, run>>

CallSubscriptionMRR ==
  /\ probe = NoProbe
  /\ \E items \in SeqsUpTo(ProbeItems, MaxItems) :
       probe' = [fn |-> "calculateSubscriptionMRR",
                 items |-> items,
                 out |-> calculateSubscriptionMRR([items |-> items])]
  /\ UNCHANGED <<snapshot, result, ltvCall, mcp, run>>

DropProbe ==
  /\ probe # NoProbe
  /\ probe' = NoProbe
  /\ UNCHANGED <<snapshot, result, ltvCall, mcp, run>>

NextUtil ==
  \/ CallNormalize
  \/ CallIsActive
  \/ CallSubscriptionMRR
  \/ DropProbe

SpecUtil == InitUtil /\ [][NextUtil]_vars

-----------------------------------------------------------------------------
(* Snapshots handed to the tools *)

\* most subscriptions in a snapshot
MaxSubs == 2

\* the clock: the first reading and one a second later
Now0 == 1000 * DaySeconds

ClockReadings == {Now0, Now0 + 1}

\* currency parameters: absent, lower case, upper case
CurrencyChoices == {"", "eur", "EUR"}

\* periodDays, churnPeriodDays and growthPeriodDays parameters
PeriodChoices == {30, 90}

Recurring(interval, count) == [interval |-> interval, interval_count |-> count]

Price(id, currency, amount, recurring) ==
  [id |-> id, currency |-> currency, unit_amount |-> amount, recurring |-> recurring]

\* recurring: null
OneTimePrice(id, currency, amount) ==
  [id |-> id, currency |-> currency, unit_amount |-> amount]

\* unit_amount: null
UnpricedPrice(id, currency, recurring) ==
  [id |-> id, currency |-> currency, recurring |-> recurring]

Item(price, quantity) == [price |-> price, quantity |-> quantity]

Subscription(status, customer, created, items) ==
  [status |-> status, customer |-> customer, created |-> created,
   cancel_at_period_end |-> FALSE, items |-> items]

Canceled(customer, created, canceledAt, atPeriodEnd, items) ==
  [status |-> "canceled", customer |-> customer, created |-> created,
   canceled_at |-> canceledAt, cancel_at_period_end |-> atPeriodEnd, items |-> items]

\* creation instants: before every period, before a 30-day period, on its
\* first second at Now0, inside it, and one second after Now0
Ancient == Now0 - 120 * DaySeconds

Old == Now0 - 60 * DaySeconds

Boundary == Now0 - 30 * DaySeconds

Recent == Now0 - 5 * DaySeconds

Future == Now0 + 1

\* the subscriptions snapshots are made of (ids are given by position)
SubscriptionPool ==
  { Subscription("active", "cus_1", Old,
      <<Item(Price("price_basic", "usd", 2000, Recurring("month", 1)), 1)>>),
    Subscription("active", "cus_2", Recent,
      <<Item(Price("price_pro_yearly", "usd", 24004, Recurring("year", 1)), 3)>>),
    Subscription("trialing", "cus_2", Recent,
      <<Item(Price("price_seat", "usd", 1000, Recurring("month", 1)), 2)>>),
    Canceled("cus_1", Old, Now0 - 10 * DaySeconds, FALSE,
      <<Item(Price("price_old", "usd", 1500, Recurring("month", 1)), 1)>>),
    Subscription("past_due", Undefined, Boundary,
      <<Item(Price("price_quarterly", "usd", 1000, Recurring("month", 3)), 1)>>),
    Subscription("active", "cus_1", Old,
      <<Item(Price("price_eur", "eur", 1000, Recurring("month", 1)), 1),
        Item(Price("price_basic", "usd", 2000, Recurring("month", 1)), 1)>>),
    Subscription("active", "cus_2", Old,
      <<Item(Price("price_upper", "EUR", 1800, Recurring("month", 1)), 1)>>),
    Subscription("active", "cus_1", Old,
      <<Item(UnpricedPrice("price_unpriced", "usd", Recurring("hour", 1)), 1),
        Item(OneTimePrice("price_setup", "usd", 500), 1),
        Item(Price("price_weekly", "eur", 1000, Recurring("week", 1)), 1)>>),
    Subscription("active", "cus_2", Recent,
      <<Item(Price("price_hourly", "eur", 1000, Recurring("hour", 1)), 1)>>),
    Canceled("cus_2", Recent, Now0 - 2 * DaySeconds, TRUE,
      <<Item(Price("price_hourly", "eur", 1000, Recurring("hour", 1)), 1)>>),
    Subscription("active", "cus_1", Old, <<>>),
    Subscription("active", "cus_2", Ancient,
      <<Item(Price("price_enterprise", "usd", 40000000, Recurring("month", 1)), 1)>>),
    Subscription("active", "cus_1", Future,
      <<Item(Price("price_team", "usd", 5000, Recurring("month", 1)), 1)>>) }

\* the arrays of at most MaxSubs subscriptions of the pool
Arrays ==
  UNION {{[type |-> "array",
           data |-> [i \in 1..n |-> [id |-> i] @@ f[i]]] :
            f \in [1..n -> SubscriptionPool]} : n \in 0..MaxSubs}

\* what execute may be handed as subscriptions
Snapshots == Arrays \cup {[type |-> "string"], [type |-> "undefined"]}

-----------------------------------------------------------------------------
(* Specification of the tools: callers invoke the tools on the snapshot,   *)
(* each with parameters and at a clock reading of its choice.  result      *)
(* holds the outcome of the last invocation until its caller takes it;     *)
(* ltvCall is the frame of an LTV execution suspended at its first await.  *)

Init ==
  /\ snapshot \in Snapshots
  /\ result = NoResult
  /\ ltvCall = NoCall
  /\ probe = NoProbe
  /\ mcp = NoClient
  /\ run = NoRun

\* the active filter is applied to the array it was given
InvokeMRR_filtersInPlace ==
  /\ result = NoResult
  /\ \E includeTrials \in BOOLEAN, currency \in CurrencyChoices, now \in ClockReadings :
       LET context == [includeTrialSubscriptions |-> includeTrials, currency |-> currency]
       IN /\ result' = [tool |-> "stripeMRRTool", context |-> context, now |-> now,
                        out |-> stripeMRRTool(context @@ [subscriptions |-> snapshot], now)]
          /\ snapshot' =
               IF NoSubscriptionData(snapshot)
               THEN snapshot
               ELSE [snapshot EXCEPT !.data = ActiveFilter(@, includeTrials)]
  /\ UNCHANGED <<ltvCall, probe, mcp, run>>

InvokeMRR ==
  /\ result = NoResult
  /\ \E includeTrials \in BOOLEAN, currency \in CurrencyChoices, now \in ClockReadings :
       LET context == [includeTrialSubscriptions |-> includeTrials, currency |-> currency]
       IN result' = [tool |-> "stripeMRRTool", context |-> context, now |-> now,
                     out |-> stripeMRRTool(context @@ [subscriptions |-> snapshot], now)]
  /\ UNCHANGED <<snapshot, ltvCall, probe, mcp, run>>

InvokeARPU ==
  /\ result = NoResult
  /\ \E includeTrials \in BOOLEAN, currency \in CurrencyChoices, now \in ClockReadings :
       LET context == [includeTrialSubscriptions |-> includeTrials, currency |-> currency]
       IN result' = [tool |-> "stripeARPUTool", context |-> context, now |-> now,
                     out |-> stripeARPUTool(context @@ [subscriptions |-> snapshot], now)]
  /\ UNCHANGED <<snapshot, ltvCall, probe, mcp, run>>

InvokeActiveSubscribers ==
  /\ result = NoResult
  /\ \E includeTrials \in BOOLEAN, currency \in CurrencyChoices,
        days \in PeriodChoices, now \in ClockReadings :
       LET context == [includeTrialSubscriptions |-> includeTrials, currency |-> currency,
                       growthPeriodDays |-> days]
       IN result' = [tool |-> "stripeActiveSubscribersTool", context |-> context, now |-> now,
                     out |-> stripeActiveSubscribersTool(
                               context @@ [subscriptions |-> snapshot], now)]
  /\ UNCHANGED <<snapshot, ltvCall, probe, mcp, run>>

InvokeChurnRate ==
  /\ result = NoResult
  /\ \E currency \in CurrencyChoices, days \in PeriodChoices, now \in ClockReadings :
       LET context == [periodDays |-> days, currency |-> currency]
       IN result' = [tool |-> "stripeChurnRateTool", context |-> context, now |-> now,
                     out |-> stripeChurnRateTool(context @@ [subscriptions |-> snapshot], now)]
  /\ UNCHANGED <<snapshot, ltvCall, probe, mcp, run>>

InvokeMRRExpansion ==
  /\ result = NoResult
  /\ \E currency \in CurrencyChoices, days \in PeriodChoices, now \in ClockReadings :
       LET context == [periodDays |-> days, currency |-> currency]
       IN result' = [tool |-> "stripeMRRExpansionTool", context |-> context, now |-> now,
                     out |-> stripeMRRExpansionTool(
                               context @@ [subscriptions |-> snapshot], now)]
  /\ UNCHANGED <<snapshot, ltvCall, probe, mcp, run>>

\* stripeLTVTool.execute up to its first await: the check of the snapshot
\* and the execution of the ARPU tool.  invoked lists the tools executed.
LTVBegin ==
  /\ result = NoResult
  /\ ltvCall = NoCall
  /\ \E includeTrials \in BOOLEAN, currency \in CurrencyChoices,
        days \in PeriodChoices, now \in ClockReadings :
       LET context == [includeTrialSubscriptions |-> includeTrials, currency |-> currency,
                       churnPeriodDays |-> days]
           full == context @@ [subscriptions |-> snapshot]
       IN IF NoSubscriptionData(snapshot)
          THEN /\ result' = [tool |-> "stripeLTVTool", context |-> context, now |-> now,
                             invoked |-> <<>>,
                             out |-> Rethrow("Failed to calculate LTV", Throw(NoDataMessage))]
               /\ ltvCall' = ltvCall
          ELSE LET arpuResult == stripeARPUTool(LTVARPUContext(full), now)
               IN IF arpuResult.threw
                  THEN /\ result' = [tool |-> "stripeLTVTool", context |-> context,
                                     now |-> now, invoked |-> <<"stripeARPUTool">>,
                                     out |-> Rethrow("Failed to calculate LTV", arpuResult)]
                       /\ ltvCall' = ltvCall
                  ELSE /\ ltvCall' = [pc |-> "awaitARPU", context |-> context,
                                      arpuResult |-> arpuResult.value]
                       /\ result' = result
  /\ UNCHANGED <<snapshot, probe, mcp, run>>

\* the rest of stripeLTVTool.execute: the execution of the churn tool and the
\* combination of the two results
LTVFinish ==
  /\ result = NoResult
  /\ ltvCall.pc = "awaitARPU"
  /\ \E now \in ClockReadings :
       LET full == ltvCall.context @@ [subscriptions |-> snapshot]
           churnRateResult == stripeChurnRateTool(LTVChurnContext(full), now)
           invoked == <<"stripeARPUTool", "stripeChurnRateTool">>
       IN result' =
            [tool |-> "stripeLTVTool", context |-> ltvCall.context, now |-> now,
             invoked |-> invoked,
             out |-> IF churnRateResult.threw
                     THEN Rethrow("Failed to calculate LTV", churnRateResult)
                     ELSE Return(LTVCombine(full, ltvCall.arpuResult,
                                            churnRateResult.value, now))]
  /\ ltvCall' = NoCall
  /\ UNCHANGED <<snapshot, probe, mcp, run>>

\* the caller takes the outcome
TakeResult ==
  /\ result # NoResult
  /\ result' = NoResult
  /\ UNCHANGED <<snapshot, ltvCall, probe, mcp, run>>

Next ==
  \/ InvokeMRR
  \/ InvokeARPU
  \/ InvokeActiveSubscribers
  \/ InvokeChurnRate
  \/ InvokeMRRExpansion
  \/ LTVBegin
  \/ LTVFinish
  \/ TakeResult

Spec == Init /\ [][Next]_vars

-----------------------------------------------------------------------------
(* Specification of the MCP client wrapper: callers call getTools,         *)
(* getToolsets and disconnect; each call runs up to its await, where it    *)
(* is suspended until the underlying client settles it.  Calls of other    *)
(* callers run while a call is suspended.                                  *)

\* new MCPClient({servers}): one more client, on which disconnect() has not
\* been called
createMCPClient(m) ==
  [m EXCEPT !.created = @ + 1, !.disconnects = Append(@, 0)]

\* a wrapper that makes a client for every call
LazyClient_alwaysCreates(m) ==
  [createMCPClient(m) EXCEPT !.client = m.created + 1]

\* if (!_mcpClient) { _mcpClient = createMCPClient(); }
LazyClient(m) ==
  IF m.client = Null
  THEN [createMCPClient(m) EXCEPT !.client = m.created + 1]
  ELSE m

\* the call of op on _mcpClient, suspended at its await; stale tells that
\* disconnect() had already been called on that client when the call was made
ClientCall(m, p, op) ==
  [m EXCEPT !.calls[p] = [op |-> op, client |-> m.client,
                          stale |-> m.disconnects[m.client] > 0]]

InitMCP ==
  /\ snapshot = [type |-> "undefined"]
  /\ result = NoResult
  /\ ltvCall = NoCall
  /\ probe = NoProbe
  /\ mcp = NoClient
  /\ run = NoRun

\* mcpClient.getToolsets() up to its await
getToolsets(p) ==
  /\ mcp.calls[p] = Idle
  /\ LazyClient(mcp).created <= MaxClients
  /\ mcp' = ClientCall(LazyClient(mcp), p, "getToolsets")
  /\ UNCHANGED <<snapshot, result, ltvCall, probe, run>>

\* mcpClient.getTools() up to its await
getTools(p) ==
  /\ mcp.calls[p] = Idle
  /\ LazyClient(mcp).created <= MaxClients
  /\ mcp' = ClientCall(LazyClient(mcp), p, "getTools")
  /\ UNCHANGED <<snapshot, result, ltvCall, probe, run>>

\* the underlying getTools() or getToolsets() settles, and the call of the
\* wrapper with it
ToolsSettled(p) ==
  /\ mcp.calls[p].op \in {"getTools", "getToolsets"}
  /\ \E outcome \in {"resolved", "rejected"} :
       mcp' = [mcp EXCEPT !.calls[p] = Idle,
                          !.settled = [op |-> mcp.calls[p].op,
                                       client |-> mcp.calls[p].client,
                                       outcome |-> outcome]]
  /\ UNCHANGED <<snapshot, result, ltvCall, probe, run>>

\* mcpClient.disconnect() up to its await: without a client it returns at
\* once, with one it calls the client's disconnect()
disconnect(p) ==
  /\ mcp.calls[p] = Idle
  /\ IF mcp.client = Null
     THEN mcp' = [mcp EXCEPT !.settled = [op |-> "disconnect", client |-> Null,
                                          outcome |-> "resolved"]]
     ELSE mcp' = [mcp EXCEPT !.disconnects[mcp.client] = @ + 1,
                             !.calls[p] = [op |-> "disconnect", client |-> mcp.client]]
  /\ UNCHANGED <<snapshot, result, ltvCall, probe, run>>

\* the client's disconnect() resolves: _mcpClient = null
DisconnectResolved(p) ==
  /\ mcp.calls[p].op = "disconnect"
  /\ mcp' = [mcp EXCEPT !.client = Null,
                        !.calls[p] = Idle,
                        !.settled = [op |-> "disconnect",
                                     client |-> mcp.calls[p].client,
                                     outcome |-> "resolved"]]
  /\ UNCHANGED <<snapshot, result, ltvCall, probe, run>>

\* the client's disconnect() rejects: the assignment is not reached
DisconnectRejected(p) ==
  /\ mcp.calls[p].op = "disconnect"
  /\ mcp' = [mcp EXCEPT !.disconnects[mcp.calls[p].client] = @ - 1,
                        !.calls[p] = Idle,
                        !.settled = [op |-> "disconnect",
                                     client |-> mcp.calls[p].client,
                                     outcome |-> "rejected"]]
  /\ UNCHANGED <<snapshot, result, ltvCall, probe, run>>

NextMCP ==
  \E p \in Callers :
    \/ getToolsets(p)
    \/ getTools(p)
    \/ ToolsSettled(p)
    \/ disconnect(p)
    \/ DisconnectResolved(p)
    \/ DisconnectRejected(p)

SpecMCP == InitMCP /\ [][NextMCP]_vars

-----------------------------------------------------------------------------
(* Specification of the workflows: a run of the MRR, ARPU, churn-rate or   *)
(* LTV workflow takes its three steps in order (fetch-subscriptions, the   *)
(* calculation step, generate-explanation); a step that throws fails the   *)
(* run.  snapshot is what the Stripe MCP server answers; the formats the   *)
(* fetch step extracts the array from are not modelled.  Explanations are  *)
(* records of a text and the values interpolated into it.                  *)

Workflows ==
  {"mrr-calculation-workflow", "arpu-calculation-workflow",
   "churn-rate-workflow", "ltv-calculation-workflow"}

\* String.prototype.toUpperCase on the currency codes of the model
ToUpperCase(s) ==
  CASE s = "usd" -> "USD"
    [] s = "eur" -> "EUR"
    [] OTHER -> s

\* the inputData of a workflow (limit only bounds what is fetched)
WorkflowInputs(workflow) ==
  CASE workflow \in {"mrr-calculation-workflow", "arpu-calculation-workflow"} ->
         [includeTrialSubscriptions : BOOLEAN, currency : CurrencyChoices]
    [] workflow = "churn-rate-workflow" ->
         [periodDays : PeriodChoices, currency : CurrencyChoices]
    [] workflow = "ltv-calculation-workflow" ->
         [includeTrialSubscriptions : BOOLEAN, currency : CurrencyChoices,
          churnPeriodDays : PeriodChoices]

\* the id of the calculation step
CalculationStepId(workflow) ==
  CASE workflow = "mrr-calculation-workflow" -> "calculate-mrr"
    [] workflow = "arpu-calculation-workflow" -> "calculate-arpu"
    [] workflow = "churn-rate-workflow" -> "calculate-churn-rate"
    [] workflow = "ltv-calculation-workflow" -> "calculate-ltv"

\* the execute of fetchSubscriptionsStep; toolAvailable tells whether the
\* client offers stripe_list_subscriptions
fetchSubscriptionsStep(inputData, toolAvailable, answer) ==
  IF ~toolAvailable
  THEN Rethrow("Failed to fetch subscriptions from Stripe",
               Throw(<<"stripe_list_subscriptions tool not available">>))
  ELSE IF NoSubscriptionData(answer)
       THEN Rethrow("Failed to fetch subscriptions from Stripe",
                    Throw(<<"No subscription data retrieved from Stripe">>))
       ELSE Return([subscriptions |-> answer, totalFetched |-> Len(answer.data)]
                     @@ inputData)

\* stripeLTVTool.execute, its two sub-calls reading the clock at arpuNow and
\* at churnNow
stripeLTVTool(context, arpuNow, churnNow) ==
  IF NoSubscriptionData(context.subscriptions)
  THEN Rethrow("Failed to calculate LTV", Throw(NoDataMessage))
  ELSE LET arpuResult == stripeARPUTool(LTVARPUContext(context), arpuNow)
       IN IF arpuResult.threw
          THEN Rethrow("Failed to calculate LTV", arpuResult)
          ELSE LET churnRateResult == stripeChurnRateTool(LTVChurnContext(context), churnNow)
               IN IF churnRateResult.threw
                  THEN Rethrow("Failed to calculate LTV", churnRateResult)
                  ELSE Return(LTVCombine(context, arpuResult.value,
                                         churnRateResult.value, churnNow))

\* const { explanation: _, ...rawAnalysis } = toolResult
WithoutExplanation(value) ==
  [k \in DOMAIN value \ {"explanation"} |-> value[k]]

\* the tool the calculation step executes on what was fetched
StepTool(workflow, inputData, now, later) ==
  CASE workflow = "mrr-calculation-workflow" ->
         stripeMRRTool([subscriptions |-> inputData.subscriptions,
                        currency |-> inputData.currency,
                        includeTrialSubscriptions |-> inputData.includeTrialSubscriptions],
                       now)
    [] workflow = "arpu-calculation-workflow" ->
         stripeARPUTool([subscriptions |-> inputData.subscriptions,
                         currency |-> inputData.currency,
                         includeTrialSubscriptions |-> inputData.includeTrialSubscriptions],
                        now)
    [] workflow = "churn-rate-workflow" ->
         stripeChurnRateTool([subscriptions |-> inputData.subscriptions,
                              currency |-> inputData.currency,
                              periodDays |-> inputData.periodDays],
                             now)
    [] workflow = "ltv-calculation-workflow" ->
         stripeLTVTool([subscriptions |-> inputData.subscriptions,
                        currency |-> inputData.currency,
                        includeTrialSubscriptions |-> inputData.includeTrialSubscriptions,
                        churnPeriodDays |-> inputData.churnPeriodDays],
                       now, later)

\* the filters the calculation step reports
StepFilters(workflow, inputData) ==
  CASE workflow \in {"mrr-calculation-workflow", "arpu-calculation-workflow"} ->
         [includeTrialSubscriptions |-> inputData.includeTrialSubscriptions,
          currency |-> inputData.currency]
    [] workflow = "churn-rate-workflow" ->
         [periodDays |-> inputData.periodDays, currency |-> inputData.currency]
    [] workflow = "ltv-calculation-workflow" ->
         [includeTrialSubscriptions |-> inputData.includeTrialSubscriptions,
          churnPeriodDays |-> inputData.churnPeriodDays,
          currency |-> inputData.currency]

\* the prefix of the error of the calculation step
StepFailure(workflow) ==
  CASE workflow = "mrr-calculation-workflow" -> "Failed to calculate MRR"
    [] workflow = "arpu-calculation-workflow" -> "Failed to calculate ARPU"
    [] workflow = "churn-rate-workflow" -> "Failed to calculate churn rate"
    [] workflow = "ltv-calculation-workflow" -> "Failed to calculate LTV"

\* the execute of the calculation step
calculateStep(workflow, inputData, now, later) ==
  LET toolResult == StepTool(workflow, inputData, now, later)
  IN IF toolResult.threw
     THEN Rethrow(StepFailure(workflow), toolResult)
     ELSE Return([filters |-> StepFilters(workflow, inputData),
                  subscriptionsFetched |-> inputData.totalFetched]
                   @@ WithoutExplanation(toolResult.value))

\* what the agent does with the request: generate() rejects, or resolves with
\* a response whose text is empty or not
AgentResponses ==
  {[threw |-> TRUE],
   [threw |-> FALSE, text |-> ""],
   [threw |-> FALSE, text |-> "explanation written by the agent"]}

\* response.text || '... completed successfully.'
DefaultExplanation(workflow) ==
  CASE workflow = "mrr-calculation-workflow" -> "MRR analysis completed successfully."
    [] workflow = "arpu-calculation-workflow" -> "ARPU analysis completed successfully."
    [] workflow = "churn-rate-workflow" -> "Churn rate analysis completed successfully."
    [] workflow = "ltv-calculation-workflow" -> "LTV calculation completed successfully."

\* (a / b).toFixed(2), in hundredths
ToFixed2(a, b) == IF b = 0 THEN "NaN" ELSE MathRound(a, b)

\* the explanation of the catch block
FallbackExplanation(workflow, inputData) ==
  CASE workflow = "mrr-calculation-workflow" ->
         [text |-> "MRR calculation completed. Total Monthly Recurring Revenue is $${totalMRR} ${currency} from ${activeSubscriptions} active subscriptions, with an average revenue per subscription of $${average}.",
          values |-> <<inputData.totalMRR, ToUpperCase(inputData.currency),
                       inputData.activeSubscriptions,
                       ToFixed2(inputData.totalMRR, inputData.activeSubscriptions)>>]
    [] workflow = "arpu-calculation-workflow" ->
         [text |-> "ARPU calculation completed. Average Revenue Per User is $${arpu} ${currency}, calculated from $${totalMRR} total MRR across ${uniqueCustomers} unique customers (${activeSubscriptions} active subscriptions).",
          values |-> <<inputData.arpu, ToUpperCase(inputData.currency), inputData.totalMRR,
                       inputData.uniqueCustomers, inputData.activeSubscriptions>>]
    [] workflow = "churn-rate-workflow" ->
         [text |-> "Churn rate analysis completed. Customer churn rate is ${churnRate}% over ${days} days, with ${churnedCustomersCount} customers churning out of ${totalCustomersAtStart} total customers at period start. Retention rate: ${retentionRate}%.",
          values |-> <<inputData.churnRate, inputData.period.days,
                       inputData.churnedCustomersCount, inputData.totalCustomersAtStart,
                       inputData.retentionRate>>]
    [] workflow = "ltv-calculation-workflow" ->
         [text |-> "Customer Lifetime Value calculation completed. LTV is $${ltv}, calculated using ARPU of $${arpu} and a churn rate of ${churnRate}%. This indicates that the average customer has a lifetime value of $${ltv} over ${monthsToChurn} months.",
          values |-> <<inputData.ltv, inputData.arpu, inputData.churnRate,
                       inputData.ltv, inputData.monthsToChurn>>]

\* generate-explanation without its catch block
generateExplanationStep_noCatch(workflow, inputData, response) ==
  IF response.threw
  THEN Throw(<<"agent.generate failed">>)
  ELSE Return([explanation |->
                 [text |-> IF response.text # "" THEN response.text
                           ELSE DefaultExplanation(workflow),
                  values |-> <<>>]] @@ inputData)

\* the execute of generateExplanationStep
generateExplanationStep(workflow, inputData, response) ==
  IF response.threw
  THEN Return([explanation |-> FallbackExplanation(workflow, inputData)] @@ inputData)
  ELSE Return([explanation |->
                 [text |-> IF response.text # "" THEN response.text
                           ELSE DefaultExplanation(workflow),
                  values |-> <<>>]] @@ inputData)

\* a run that failed in a step
FailedRun(workflow, stepId, thrown) ==
  [workflow |-> workflow, step |-> "failed", failedStep |-> stepId,
   error |-> thrown.message]

InitWorkflow ==
  /\ snapshot \in Snapshots
  /\ result = NoResult
  /\ ltvCall = NoCall
  /\ probe = NoProbe
  /\ mcp = NoClient
  /\ run = NoRun

\* the run starts with fetch-subscriptions, which gets the tools from the MCP
\* client wrapper
RunFetchSubscriptions ==
  /\ run = NoRun
  /\ \E workflow \in Workflows, toolAvailable \in BOOLEAN :
       \E inputData \in WorkflowInputs(workflow) :
         LET fetched == fetchSubscriptionsStep(inputData, toolAvailable, snapshot)
         IN run' = IF fetched.threw
                   THEN FailedRun(workflow, "fetch-subscriptions", fetched)
                   ELSE [workflow |-> workflow, step |-> CalculationStepId(workflow),
                         fetched |-> fetched.value]
  /\ mcp' = LazyClient(mcp)
  /\ UNCHANGED <<snapshot, result, ltvCall, probe>>

\* .then(calculate...Step)
RunCalculation ==
  /\ run.step \in {CalculationStepId(workflow) : workflow \in Workflows}
  /\ \E now \in ClockReadings, later \in ClockReadings :
       LET raw == calculateStep(run.workflow, run.fetched, now, later)
       IN run' = IF raw.threw
                 THEN FailedRun(run.workflow, run.step, raw)
                 ELSE [workflow |-> run.workflow, step |-> "generate-explanation",
                       fetched |-> run.fetched, raw |-> raw.value]
  /\ UNCHANGED <<snapshot, result, ltvCall, probe, mcp>>

\* .then(generateExplanationStep)
RunGenerateExplanation ==
  /\ run.step = "generate-explanation"
  /\ \E response \in AgentResponses :
       LET done == generateExplanationStep(run.workflow, run.raw, response)
       IN run' = IF done.threw
                 THEN FailedRun(run.workflow, run.step, done)
                 ELSE [workflow |-> run.workflow, step |-> "success",
                       fetched |-> run.fetched, raw |-> run.raw,
                       response |-> response, result |-> done.value]
  /\ UNCHANGED <<snapshot, result, ltvCall, probe, mcp>>

NextWorkflow ==
  \/ RunFetchSubscriptions
  \/ RunCalculation
  \/ RunGenerateExplanation

SpecWorkflow == InitWorkflow /\ [][NextWorkflow]_vars

-----------------------------------------------------------------------------
(* Properties of the utility functions, checked under SpecUtil *)

\* r = Math.round(n / d): r - 1/2 <= n / d < r + 1/2
IsRounded(r, n, d) == 2 * r * d - d <= 2 * n /\ 2 * n < 2 * r * d + d

\* C2: for every amount and every intervalCount >= 1,
\* normalizeBillingPeriodToMonthly returns round(x * 100) / 100, where x is
\* amount / intervalCount * 30.44 for day, amount / intervalCount * 4.33 for
\* week, amount / intervalCount for month and amount / (intervalCount * 12)
\* for year, and echoes its three arguments.  (amount = a / 100, so
\* x * 100 = a * 3044 / (100 * intervalCount) for day, and so on.)
C2_NormalizeFormula ==
  (probe.fn = "normalizeBillingPeriodToMonthly" /\ probe.interval \in Intervals) =>
    /\ ~probe.out.threw
    /\ probe.out.value.originalAmount = probe.amount
    /\ probe.out.value.originalInterval = probe.interval
    /\ probe.out.value.originalIntervalCount = probe.intervalCount
    /\ LET r == probe.out.value.normalizedMonthlyAmount
           a == probe.amount
           c == probe.intervalCount
       IN CASE probe.interval = "day" -> IsRounded(r, a * 3044, 100 * c)
            [] probe.interval = "week" -> IsRounded(r, a * 433, 100 * c)
            [] probe.interval = "month" -> IsRounded(r, a, c)
            [] probe.interval = "year" -> IsRounded(r, a, 12 * c)

\* normalize(1200, 'year', 2) = 50.00 has been computed
C2_Witness ==
  /\ probe.fn = "normalizeBillingPeriodToMonthly"
  /\ probe.amount = 120000 /\ probe.interval = "year" /\ probe.intervalCount = 2
  /\ ~probe.out.threw
  /\ probe.out.value.normalizedMonthlyAmount = 5000

\* C4: isSubscriptionActiveForMRR is true iff the status is active or
\* past_due, or the status is trialing and includeTrials is true.
C4_ActiveStatuses ==
  probe.fn = "isSubscriptionActiveForMRR" =>
    (probe.out <=>
       \/ probe.status = "active"
       \/ probe.status = "past_due"
       \/ (probe.status = "trialing" /\ probe.includeTrials))

\* a past_due subscription has been classified active without trials
C4_Witness ==
  /\ probe.fn = "isSubscriptionActiveForMRR"
  /\ probe.status = "past_due" /\ ~probe.includeTrials
  /\ probe.out

\* a line item whose unit_amount or recurring descriptor is missing
MissingPricing(item) ==
  \/ "unit_amount" \notin DOMAIN item.price
  \/ "recurring" \notin DOMAIN item.price

\* the items of a sequence that have both unit_amount and recurring
WithPricing(items) == SelectSeq(items, LAMBDA item : ~MissingPricing(item))

\* C9: calculateSubscriptionMRR raises no error and adds nothing for a line
\* item whose unit_amount or recurring descriptor is missing, while the other
\* items still contribute (the outcome is that of the subscription without
\* such items); an empty items sequence has MRR 0.
C9_MissingPricingSkipped ==
  probe.fn = "calculateSubscriptionMRR" =>
    /\ probe.out = calculateSubscriptionMRR([items |-> WithPricing(probe.items)])
    /\ WithPricing(probe.items) = <<>> => probe.out = Return(0)

\* an item without unit_amount (and an interval that would not normalise) was
\* skipped while the second item contributed 10.00
C9_Witness ==
  /\ probe.fn = "calculateSubscriptionMRR"
  /\ Len(probe.items) = 2
  /\ "unit_amount" \notin DOMAIN probe.items[1].price
  /\ probe.items[1].price.recurring.interval = "hour"
  /\ ~MissingPricing(probe.items[2])
  /\ probe.out = Return(1000)

-----------------------------------------------------------------------------
(* Properties of the tools, checked under Spec *)

RECURSIVE SumOf(_, _)
\* f[1] + ... + f[n]
SumOf(f, n) == IF n = 0 THEN 0 ELSE f[n] + SumOf(f, n - 1)

\* the result is the outcome of an execution of the tool that returned
Returned(tool) == result.tool = tool /\ ~result.out.threw

\* the line items of a subscription that have a unit amount (not 0) and a
\* recurring descriptor
PricedItems(sub) ==
  SelectSeq(sub.items,
    LAMBDA item : /\ "unit_amount" \in DOMAIN item.price
                  /\ item.price.unit_amount # 0
                  /\ "recurring" \in DOMAIN item.price)

\* a priced line item whose interval cannot be normalised
UnsupportedItem(item) == item.price.recurring.interval \notin Intervals

\* unit_amount x quantity / 100 normalised to a month, in hundredths
ItemMonthly(item) ==
  normalizeBillingPeriodToMonthly(item.price.unit_amount * item.quantity,
    item.price.recurring.interval,
    item.price.recurring.interval_count).value.normalizedMonthlyAmount

\* the per-subscription MRR of a subscription whose intervals are supported
MonthlyValue(sub) ==
  LET items == PricedItems(sub)
  IN SumOf([k \in 1..Len(items) |-> ItemMonthly(items[k])], Len(items))

\* the status is one of those counted, per includeTrialSubscriptions
StatusCounts(sub, includeTrials) ==
  \/ sub.status \in {"active", "past_due"}
  \/ (sub.status = "trialing" /\ includeTrials)

\* the subscriptions of the snapshot that are active and pass the currency
\* filter of the tools when a currency is given
Survivors(includeTrials, currency) ==
  SelectSeq(snapshot.data,
    LAMBDA sub : /\ StatusCounts(sub, includeTrials)
                 /\ (currency # "" => SomeItemInCurrency(sub, currency)))

\* some surviving subscription has a priced item of unsupported interval
SurvivorUnsupported(includeTrials, currency) ==
  LET subs == Survivors(includeTrials, currency)
  IN \E i \in 1..Len(subs) :
       \E k \in 1..Len(PricedItems(subs[i])) : UnsupportedItem(PricedItems(subs[i])[k])

\* C1: for every non-empty snapshot the MRR calculator's totalMRR is the sum,
\* over exactly the subscriptions that are active (per
\* includeTrialSubscriptions) and pass the currency filter when one is given,
\* of the per-subscription MRR; activeSubscriptions is their number and
\* breakdown has one entry per such subscription, in snapshot order, with
\* its id and its MRR.  (The calculator returns unless a surviving
\* subscription has an unsupported interval.)
C1_TotalMRR ==
  (result.tool = "stripeMRRTool" /\ ~NoSubscriptionData(snapshot)) =>
    LET subs == Survivors(result.context.includeTrialSubscriptions, result.context.currency)
    IN IF SurvivorUnsupported(result.context.includeTrialSubscriptions,
                              result.context.currency)
       THEN result.out.threw
       ELSE /\ ~result.out.threw
            /\ result.out.value.totalMRR =
                 SumOf([i \in 1..Len(subs) |-> MonthlyValue(subs[i])], Len(subs))
            /\ result.out.value.activeSubscriptions = Len(subs)
            /\ Len(result.out.value.breakdown) = Len(subs)
            /\ \A i \in 1..Len(subs) :
                 /\ result.out.value.breakdown[i].subscriptionId = subs[i].id
                 /\ result.out.value.breakdown[i].customerMRR = MonthlyValue(subs[i])

\* of two subscriptions one survived the filter to "EUR"; its MRR is 30.00
C1_Witness ==
  /\ Returned("stripeMRRTool")
  /\ Len(snapshot.data) = 2
  /\ result.context.currency = "EUR"
  /\ result.out.value.activeSubscriptions = 1
  /\ result.out.value.breakdown[1].subscriptionId = 2
  /\ result.out.value.totalMRR = 3000

\* the tools that compute MRR values
MRRBasedTools ==
  {"stripeMRRTool", "stripeARPUTool", "stripeLTVTool", "stripeMRRExpansionTool"}

\* the execution failed with the error of an unsupported interval
UnsupportedIntervalThrown ==
  /\ result.out.threw
  /\ \E n \in 1..Len(result.out.message) :
       result.out.message[n] = "Unsupported billing interval"

\* some line item of the snapshot has a recurring interval outside
\* {day, week, month, year}
SnapshotHasUnsupportedInterval ==
  \E i \in 1..Len(snapshot.data) : \E k \in 1..Len(snapshot.data[i].items) :
    /\ "recurring" \in DOMAIN snapshot.data[i].items[k].price
    /\ snapshot.data[i].items[k].price.recurring.interval \notin Intervals

\* C3 as stated: whenever a line item of a snapshot subscription has an
\* unsupported interval, the MRR, ARPU, LTV and expansion calculations fail
\* with an unsupported-interval error.
C3_AnyUnsupportedIntervalFails ==
  (/\ result.tool \in MRRBasedTools
   /\ ~NoSubscriptionData(snapshot)
   /\ SnapshotHasUnsupportedInterval)
  => UnsupportedIntervalThrown

\* the includeTrials value with which a tool filters by status
TrialsOf(r) ==
  IF r.tool = "stripeMRRExpansionTool" THEN FALSE
  ELSE r.context.includeTrialSubscriptions

\* C3 as amended: when a line item that has a non-zero unit_amount and a
\* recurring descriptor of unsupported interval belongs to a subscription that
\* passes the tool's active and currency filters, the calculation (MRR, ARPU,
\* LTV, expansion) fails with an unsupported-interval error and returns no
\* result.
C3_EvaluatedUnsupportedIntervalFails ==
  (/\ result.tool \in MRRBasedTools
   /\ ~NoSubscriptionData(snapshot)
   /\ SurvivorUnsupported(TrialsOf(result), result.context.currency))
  => UnsupportedIntervalThrown

\* the LTV calculation failed on the error raised inside its ARPU calculation
C3_Witness ==
  /\ result.tool = "stripeLTVTool"
  /\ result.out.threw
  /\ result.out.message =
       <<"Failed to calculate LTV", "Failed to calculate ARPU",
         "Unsupported billing interval", "hour">>
  /\ result.invoked = <<"stripeARPUTool">>
  /\ SurvivorUnsupported(result.context.includeTrialSubscriptions, result.context.currency)

\* some line item's currency equals the requested one, letter case ignored
\* on both sides
MatchesIgnoringCase(sub, currency) ==
  \E k \in 1..Len(sub.items) :
    ToLowerCase(sub.items[k].price.currency) = ToLowerCase(currency)

\* C5: in every calculator that accepts a currency, a subscription is kept
\* iff at least one of its line items has the requested currency, compared
\* case-insensitively whatever the letter case of the request and of the
\* item; a kept subscription is kept whole.  Read off the MRR breakdown and
\* the count of the active-subscriber analyzer.
C5_CaseInsensitiveFilter ==
  /\ (Returned("stripeMRRTool") /\ result.context.currency # "") =>
       {result.out.value.breakdown[n].subscriptionId :
          n \in 1..Len(result.out.value.breakdown)}
       = {i \in 1..Len(snapshot.data) :
            /\ StatusCounts(snapshot.data[i], result.context.includeTrialSubscriptions)
            /\ MatchesIgnoringCase(snapshot.data[i], result.context.currency)}
  /\ (Returned("stripeActiveSubscribersTool") /\ result.context.currency # "") =>
       result.out.value.totalActiveSubscriptions
       = Cardinality({i \in 1..Len(snapshot.data) :
            /\ StatusCounts(snapshot.data[i], result.context.includeTrialSubscriptions)
            /\ MatchesIgnoringCase(snapshot.data[i], result.context.currency)})

\* the monthly value of the priced line items of a subscription that are
\* in the requested currency
MonthlyValueIn(sub, currency) ==
  LET items == SelectSeq(PricedItems(sub),
                 LAMBDA item : ToLowerCase(item.price.currency) = ToLowerCase(currency))
  IN SumOf([k \in 1..Len(items) |-> ItemMonthly(items[k])], Len(items))

\* C6: when a currency filter is given, no line item priced in another
\* currency contributes: the MRR is computed from the line items in the
\* requested currency only.
C6_OnlyRequestedCurrencyCounts ==
  (Returned("stripeMRRTool") /\ result.context.currency # "") =>
    LET subs == Survivors(result.context.includeTrialSubscriptions, result.context.currency)
    IN result.out.value.totalMRR =
         SumOf([i \in 1..Len(subs) |-> MonthlyValueIn(subs[i], result.context.currency)],
               Len(subs))

\* the snapshot is empty or not an array
EmptyOrNoArray == snapshot.type # "array" \/ snapshot.data = <<>>

\* the prefix the catch clause of each tool puts before the message
FailurePrefix ==
  [t \in {"stripeMRRTool", "stripeARPUTool", "stripeActiveSubscribersTool",
          "stripeChurnRateTool", "stripeLTVTool", "stripeMRRExpansionTool"} |->
     CASE t = "stripeMRRTool" -> "Failed to calculate MRR"
       [] t = "stripeARPUTool" -> "Failed to calculate ARPU"
       [] t = "stripeActiveSubscribersTool" -> "Failed to analyze active subscribers"
       [] t = "stripeChurnRateTool" -> "Failed to calculate churn rate"
       [] t = "stripeLTVTool" -> "Failed to calculate LTV"
       [] t = "stripeMRRExpansionTool" -> "Failed to calculate MRR expansion"]

\* C7: each of the six calculators called with a snapshot that is empty or
\* not an array fails with the 'No subscription data provided' error of its
\* own check, before any filtering or calculation, and returns no result; the
\* LTV calculator fails this way without invoking the ARPU or churn
\* calculators (and is never suspended on such a snapshot).
C7_NoDataProvided ==
  EmptyOrNoArray =>
    /\ ltvCall = NoCall
    /\ result # NoResult =>
         /\ result.out.threw
         /\ result.out.message =
              <<FailurePrefix[result.tool], "No subscription data provided">>
         /\ result.tool = "stripeLTVTool" => result.invoked = <<>>

\* the LTV calculator refused a snapshot that is a string
C7_Witness ==
  /\ snapshot.type = "string"
  /\ result.tool = "stripeLTVTool"
  /\ result.out.threw
  /\ result.invoked = <<>>

\* C8: a non-empty snapshot in which no subscription survives the active and
\* currency filters is not an error: the MRR calculator returns totalMRR 0,
\* activeSubscriptions 0 and an empty breakdown, the ARPU calculator arpu 0,
\* totalMRR 0 and uniqueCustomers 0.
C8_NothingSurvives ==
  (/\ result.tool \in {"stripeMRRTool", "stripeARPUTool"}
   /\ ~EmptyOrNoArray
   /\ Survivors(result.context.includeTrialSubscriptions, result.context.currency) = <<>>)
  => /\ ~result.out.threw
     /\ result.out.value.totalMRR = 0
     /\ result.out.value.activeSubscriptions = 0
     /\ result.out.value.breakdown = <<>>
     /\ result.tool = "stripeARPUTool" =>
          /\ result.out.value.arpu = 0
          /\ result.out.value.uniqueCustomers = 0

\* the ARPU calculator returned zeros for two subscriptions that the filter
\* to "eur" dropped
C8_Witness ==
  /\ Returned("stripeARPUTool")
  /\ Len(snapshot.data) = 2
  /\ \A i \in 1..2 : snapshot.data[i].status = "active"
  /\ result.context.currency = "eur"
  /\ result.out.value.arpu = 0
  /\ result.out.value.uniqueCustomers = 0
  /\ result.out.value.activeSubscriptions = 0

\* C10: the ARPU calculator returns arpu = totalMRR / uniqueCustomers rounded
\* to 2 decimals, where uniqueCustomers is the number of distinct customer
\* ids among the active, currency-matching subscriptions, and arpu = 0 when
\* uniqueCustomers = 0, whatever totalMRR is.
C10_ARPU ==
  Returned("stripeARPUTool") =>
    LET subs == Survivors(result.context.includeTrialSubscriptions, result.context.currency)
        customers == {subs[i].customer : i \in 1..Len(subs)} \ {Undefined}
        out == result.out.value
    IN /\ out.uniqueCustomers = Cardinality(customers)
       /\ out.totalMRR = SumOf([i \in 1..Len(subs) |-> MonthlyValue(subs[i])], Len(subs))
       /\ IF customers = {}
          THEN out.arpu = 0
          ELSE IsRounded(out.arpu, out.totalMRR, out.uniqueCustomers)

\* one customer holding two subscriptions was counted once: ARPU = MRR = 50.00
C10_Witness ==
  /\ Returned("stripeARPUTool")
  /\ result.out.value.activeSubscriptions = 2
  /\ result.out.value.uniqueCustomers = 1
  /\ result.out.value.totalMRR = 5000
  /\ result.out.value.arpu = 5000

\* the customer ids of the subscriptions, an absent customer left out
KnownCustomers(subs) == {subs[i].customer : i \in 1..Len(subs)} \ {Undefined}

\* the subscriptions of the snapshot that pass the currency filter of the
\* tools when a currency is given
CurrencyMatching(currency) ==
  SelectSeq(snapshot.data,
    LAMBDA sub : currency # "" => SomeItemInCurrency(sub, currency))

\* C11: a subscription whose customer is absent is excluded from every
\* unique-customer count: uniqueCustomers of ARPU, uniqueActiveCustomers of
\* the active-subscriber analyzer, and totalCustomersAtStart,
\* newCustomersInPeriod and churnedCustomersCount of the churn calculator.
C11_AbsentCustomerNeverCounted ==
  /\ Returned("stripeARPUTool") =>
       result.out.value.uniqueCustomers =
         Cardinality(KnownCustomers(
           Survivors(result.context.includeTrialSubscriptions, result.context.currency)))
  /\ Returned("stripeActiveSubscribersTool") =>
       result.out.value.uniqueActiveCustomers =
         Cardinality(KnownCustomers(
           Survivors(result.context.includeTrialSubscriptions, result.context.currency)))
  /\ Returned("stripeChurnRateTool") =>
       LET subs == CurrencyMatching(result.context.currency)
           periodEnd == result.now
           periodStart == periodEnd - result.context.periodDays * DaySeconds
           out == result.out.value
       IN /\ out.totalCustomersAtStart =
               Cardinality(KnownCustomers(
                 SelectSeq(subs, LAMBDA sub : sub.created < periodStart)))
          /\ out.newCustomersInPeriod =
               Cardinality(KnownCustomers(
                 SelectSeq(subs, LAMBDA sub : /\ sub.created >= periodStart
                                              /\ sub.created <= periodEnd)))
          /\ out.churnedCustomersCount =
               Cardinality(KnownCustomers(
                 SelectSeq(subs, LAMBDA sub : CanceledInPeriod(sub, periodStart, periodEnd))))


\* C12: the churn calculator selects its rate by a three-way branch on the
\* counts it reports: churnedCustomersCount / totalCustomersAtStart x 100 when
\* totalCustomersAtStart > 0; else churnedNewCustomers / newCustomersInPeriod
\* x 100 when newCustomersInPeriod > 0, churnedNewCustomers counting the
\* churned customers that are also in the acquired-in-period set; else 0.
\* The rate is rounded to 2 decimals and retentionRate = 100 - churnRate.
C12_ChurnRateBranches ==
  Returned("stripeChurnRateTool") =>
    LET out == result.out.value
        subs == CurrencyMatching(result.context.currency)
        periodEnd == result.now
        periodStart == periodEnd - result.context.periodDays * DaySeconds
        acquired == {subs[i].customer :
                       i \in {j \in 1..Len(subs) : /\ subs[j].created >= periodStart
                                                   /\ subs[j].created <= periodEnd}}
        churned == {subs[i].customer :
                      i \in {j \in 1..Len(subs) :
                               CanceledInPeriod(subs[j], periodStart, periodEnd)}}
    IN /\ out.churnedNewCustomers = Cardinality(churned \cap acquired)
       /\ IF out.totalCustomersAtStart > 0
          THEN IsRounded(out.churnRate, out.churnedCustomersCount * 10000,
                         out.totalCustomersAtStart)
          ELSE IF out.newCustomersInPeriod > 0
               THEN IsRounded(out.churnRate, out.churnedNewCustomers * 10000,
                              out.newCustomersInPeriod)
               ELSE out.churnRate = 0
       /\ out.retentionRate = 10000 - out.churnRate

\* nobody was a customer at the start of the period; the one customer
\* acquired in it churned: 100 %, by the second branch
C12_Witness ==
  /\ Returned("stripeChurnRateTool")
  /\ result.out.value.totalCustomersAtStart = 0
  /\ result.out.value.newCustomersInPeriod = 1
  /\ result.out.value.churnedCustomersCount = 1
  /\ result.out.value.churnedNewCustomers = 1
  /\ result.out.value.churnRate = 10000
  /\ result.out.value.retentionRate = 0


\* the customers, as the churn calculator's Sets hold them, of the
\* currency-matching subscriptions created in [from, to]
CustomersCreatedBetween(currency, from, to) ==
  LET subs == CurrencyMatching(currency)
  IN {subs[i].customer :
        i \in {j \in 1..Len(subs) : subs[j].created >= from /\ subs[j].created <= to}}

\* C13: the churn calculator's partition follows the subscriptions, not the
\* customers: totalCustomersAtStart is the number of distinct customers having
\* some currency-matching subscription with created < periodStart, and
\* newCustomersInPeriod the number having some subscription with
\* periodStart <= created <= periodEnd; a customer with one subscription on
\* each side of periodStart is counted in both, and a subscription created
\* after periodEnd puts its customer in neither.
C13_PartitionFollowsSubscriptions ==
  Returned("stripeChurnRateTool") =>
    LET periodEnd == result.now
        periodStart == periodEnd - result.context.periodDays * DaySeconds
        atStart == CustomersCreatedBetween(result.context.currency, 0, periodStart - 1)
        acquired == CustomersCreatedBetween(result.context.currency, periodStart, periodEnd)
    IN /\ result.out.value.totalCustomersAtStart = Cardinality(atStart)
       /\ result.out.value.newCustomersInPeriod = Cardinality(acquired)
       /\ result.out.value.period.startDate = periodStart
       /\ result.out.value.period.endDate = periodEnd

\* the one customer of the snapshot has a subscription on each side of
\* periodStart and is counted on both sides
C13_Witness ==
  /\ Returned("stripeChurnRateTool")
  /\ Len(snapshot.data) = 2
  /\ snapshot.data[1].customer = snapshot.data[2].customer
  /\ snapshot.data[1].created < result.out.value.period.startDate
  /\ snapshot.data[2].created >= result.out.value.period.startDate
  /\ result.out.value.totalCustomersAtStart = 1
  /\ result.out.value.newCustomersInPeriod = 1


\* r = Math.round(a * b / d), for a >= 0, b > 0, d > 0.  The fraction b / d
\* is reduced and a split into quotient and remainder, which keeps every
\* product within the range of the checker's integers.
RoundsTo(r, a, b, d) ==
  LET g == GCD(b, d)
      bb == b \div g
      dd == d \div g
      q == a \div dd
  IN IsRounded(r - q * bb, (a - q * dd) * bb, dd)

\* Math.round(a * b / d) >= c, that is a * b / d >= c - 1/2, under the same
\* conditions
RoundsToAtLeast(c, a, b, d) ==
  LET g == GCD(b, d)
      bb == b \div g
      dd == d \div g
      q == a \div dd
  IN IF q * bb >= c THEN TRUE
     ELSE IF q * bb + bb < c THEN FALSE
     ELSE 2 * (a - q * dd) * bb >= (2 * (c - q * bb) - 1) * dd

\* out is the value x / y rounded to 2 decimals and then limited to ceiling;
\* x, y as the fraction a * b / d of hundredths
RoundedAndLimited(out, ceiling, a, b, d) ==
  \/ out <= ceiling /\ RoundsTo(out, a, b, d)
  \/ out = ceiling /\ RoundsToAtLeast(ceiling, a, b, d)

\* C14: whenever the churn rate returned by the churn calculator is nonzero,
\* the LTV calculator returns ltv = round(ARPU / monthlyChurn, 2) and
\* monthsToChurn = round(1 / monthlyChurn, 2), with monthlyChurn =
\* (churnRate / 100) x (30 / churnPeriodDays) computed from the already
\* rounded ARPU and churnRate, each value then limited to its ceiling
\* (1,000,000 and 10,000).  In hundredths, value / monthlyChurn x 100 is
\* value x 1000 x churnPeriodDays / (3 x churnRate).
C14_LTVFormula ==
  (Returned("stripeLTVTool") /\ result.out.value.dependencyResults.churnRate.churnRate # 0) =>
    LET out == result.out.value
        arpu == out.dependencyResults.arpu.arpu
        churnRate == out.dependencyResults.churnRate.churnRate
        days == result.context.churnPeriodDays
    IN /\ RoundedAndLimited(out.ltv, 1000000 * 100, arpu, 1000 * days, 3 * churnRate)
       /\ RoundedAndLimited(out.monthsToChurn, 10000 * 100, 100, 1000 * days, 3 * churnRate)

\* ARPU 18.00 and a churn of 50 % in 30 days: ltv = 36.00 and
\* monthsToChurn = 2
C14_Witness ==
  /\ Returned("stripeLTVTool")
  /\ result.context.churnPeriodDays = 30
  /\ result.out.value.arpu = 1800
  /\ result.out.value.churnRate = 5000
  /\ result.out.value.ltv = 3600
  /\ result.out.value.monthsToChurn = 200


\* C15: when no customer churned in the analysis period (monthly churn is 0),
\* the LTV calculator raises no error and returns exactly ltv = 1,000,000 and
\* monthsToChurn = 10,000, whatever the ARPU is (including ARPU = 0).
C15_ZeroChurnSentinels ==
  /\ (result.tool = "stripeLTVTool"
        /\ result.invoked = <<"stripeARPUTool", "stripeChurnRateTool">>) =>
       ~result.out.threw
  /\ (Returned("stripeLTVTool")
        /\ (result.out.value.churnedCustomers = 0 \/ result.out.value.churnRate = 0)) =>
       /\ result.out.value.churnRate = 0
       /\ result.out.value.ltv = 1000000 * 100
       /\ result.out.value.monthsToChurn = 10000 * 100

\* nobody churned and the one customer pays nothing: ARPU = 0
C15_Witness ==
  /\ Returned("stripeLTVTool")
  /\ result.out.value.churnedCustomers = 0
  /\ result.out.value.dependencyResults.arpu.uniqueCustomers = 1
  /\ result.out.value.arpu = 0
  /\ result.out.value.ltv = 1000000 * 100
  /\ result.out.value.monthsToChurn = 10000 * 100


\* C16: for every non-empty snapshot and every churnPeriodDays >= 1, the ltv
\* returned by the LTV calculator is a finite number not above 1,000,000 and
\* monthsToChurn is a finite number not above 10,000; Infinity, NaN and
\* Number.MAX_SAFE_INTEGER never appear in the output.  (Every number of the
\* model is finite.)
C16_LTVWithinCeilings ==
  Returned("stripeLTVTool") =>
    /\ result.out.value.ltv \in Int
    /\ result.out.value.ltv <= 1000000 * 100
    /\ result.out.value.ltv # MAX_SAFE_INTEGER
    /\ result.out.value.monthsToChurn \in Int
    /\ result.out.value.monthsToChurn <= 10000 * 100
    /\ result.out.value.monthsToChurn # MAX_SAFE_INTEGER

\* ARPU 400,000.00 and a churn of 100 % in 90 days: ARPU / monthlyChurn is
\* 1,200,000, returned as 1,000,000; monthsToChurn is 3
C16_Witness ==
  /\ Returned("stripeLTVTool")
  /\ result.context.churnPeriodDays = 90
  /\ result.out.value.arpu = 400000 * 100
  /\ result.out.value.churnRate = 100 * 100
  /\ result.out.value.ltv = 1000000 * 100
  /\ result.out.value.monthsToChurn = 300


\* C17: the LTV calculator composes the other two on the same snapshot: its
\* arpu equals the ARPU calculator's result for (snapshot,
\* includeTrialSubscriptions, currency); its churnRate, retentionRate and
\* churnedCustomers equal the churn calculator's result for (snapshot,
\* periodDays = churnPeriodDays, currency) at the same clock reading; and
\* dependencyResults carries both full nested results.
C17_LTVComposes ==
  Returned("stripeLTVTool") =>
    LET out == result.out.value
        arpuAlone ==
          stripeARPUTool(
            [includeTrialSubscriptions |-> result.context.includeTrialSubscriptions,
             currency |-> result.context.currency,
             subscriptions |-> snapshot],
            out.dependencyResults.arpu.calculatedAt)
        churnAlone ==
          stripeChurnRateTool(
            [periodDays |-> result.context.churnPeriodDays,
             currency |-> result.context.currency,
             subscriptions |-> snapshot],
            result.now)
    IN /\ ~arpuAlone.threw
       /\ ~churnAlone.threw
       /\ out.arpu = arpuAlone.value.arpu
       /\ out.churnRate = churnAlone.value.churnRate
       /\ out.retentionRate = churnAlone.value.retentionRate
       /\ out.churnedCustomers = churnAlone.value.churnedCustomersCount
       /\ out.dependencyResults.arpu = arpuAlone.value
       /\ out.dependencyResults.churnRate = churnAlone.value

\* a 90-day analysis whose churn sub-call ran a second after the ARPU
\* sub-call: half of the customers churned and ARPU is 20.00
C17_Witness ==
  /\ Returned("stripeLTVTool")
  /\ result.context.churnPeriodDays = 90
  /\ result.out.value.period.days = 90
  /\ result.out.value.dependencyResults.arpu.calculatedAt = Now0
  /\ result.now = Now0 + 1
  /\ result.out.value.churnRate = 5000
  /\ result.out.value.arpu = 2000
  /\ result.out.value.churnedCustomers = 1


\* the MRR the expansion calculator starts from: that of the active
\* (trials left out), currency-matching subscriptions
StartingMRR(currency) ==
  LET subs == Survivors(FALSE, currency)
  IN SumOf([i \in 1..Len(subs) |-> MonthlyValue(subs[i])], Len(subs))

\* the errors the calculators raise: the snapshot is missing or empty, or an
\* interval is not supported
KnownFailure ==
  \/ result.out.message[Len(result.out.message)] = NoDataMessage[1]
  \/ /\ Len(result.out.message) >= 2
     /\ result.out.message[Len(result.out.message) - 1] = "Unsupported billing interval"

\* C18: no zero denominator produces an error or a non-finite number: ARPU
\* with zero customers, churn rate with zero customers at start and zero new
\* customers, growth rate with zero existing subscriptions, expansionRate
\* with zero starting MRR and averageExpansionPerUpgrade with zero upgrades
\* each resolve to exactly 0.
C18_ZeroDenominators ==
  /\ (result # NoResult /\ result.out.threw) => KnownFailure
  /\ (Returned("stripeARPUTool") /\ result.out.value.uniqueCustomers = 0) =>
       result.out.value.arpu = 0
  /\ (Returned("stripeChurnRateTool")
        /\ result.out.value.totalCustomersAtStart = 0
        /\ result.out.value.newCustomersInPeriod = 0) =>
       result.out.value.churnRate = 0
  /\ (Returned("stripeActiveSubscribersTool")
        /\ result.out.value.growth.existingSubscriptions = 0) =>
       result.out.value.growth.growthRate = 0
  /\ (Returned("stripeMRRExpansionTool") /\ StartingMRR(result.context.currency) = 0) =>
       result.out.value.expansionRate = 0
  /\ (Returned("stripeMRRExpansionTool") /\ result.out.value.totalUpgrades = 0) =>
       result.out.value.averageExpansionPerUpgrade = 0

\* the one subscription that counts has no customer: MRR 3.33 over zero
\* customers is an ARPU of 0
C18_Witness ==
  /\ Returned("stripeARPUTool")
  /\ result.out.value.activeSubscriptions = 1
  /\ result.out.value.totalMRR = 333
  /\ result.out.value.uniqueCustomers = 0
  /\ result.out.value.arpu = 0


\* what an execution of the LTV calculator on the snapshot yields when its
\* ARPU sub-call reads the clock at arpuNow and the rest at churnNow
LTVOutcome(context, arpuNow, churnNow) ==
  LET full == context @@ [subscriptions |-> snapshot]
  IN IF NoSubscriptionData(snapshot)
     THEN Rethrow("Failed to calculate LTV", Throw(NoDataMessage))
     ELSE LET arpuResult == stripeARPUTool(LTVARPUContext(full), arpuNow)
              churnRateResult == stripeChurnRateTool(LTVChurnContext(full), churnNow)
          IN IF arpuResult.threw
             THEN Rethrow("Failed to calculate LTV", arpuResult)
             ELSE IF churnRateResult.threw
                  THEN Rethrow("Failed to calculate LTV", churnRateResult)
                  ELSE Return(LTVCombine(full, arpuResult.value,
                                         churnRateResult.value, churnNow))

\* what an execution of a calculator on the snapshot yields when it runs
\* alone and reads the clock at now
Outcome(tool, context, now) ==
  LET full == context @@ [subscriptions |-> snapshot]
  IN CASE tool = "stripeMRRTool" -> stripeMRRTool(full, now)
       [] tool = "stripeARPUTool" -> stripeARPUTool(full, now)
       [] tool = "stripeActiveSubscribersTool" -> stripeActiveSubscribersTool(full, now)
       [] tool = "stripeChurnRateTool" -> stripeChurnRateTool(full, now)
       [] tool = "stripeMRRExpansionTool" -> stripeMRRExpansionTool(full, now)
       [] tool = "stripeLTVTool" -> LTVOutcome(context, now, now)

\* C19: calling any calculator (MRR, ARPU, active subscribers, churn, LTV,
\* expansion) twice on an identical, unmodified snapshot with identical
\* parameters yields identical output: the result is a function of the
\* snapshot and the parameters only, including when the two calls happen at
\* different times.
C19_SameInputsSameOutput ==
  result # NoResult =>
    \A now \in ClockReadings : result.out = Outcome(result.tool, result.context, now)


\* the clock reading of the ARPU sub-call of the LTV execution whose outcome
\* is in result: kept in the nested ARPU result, and that of the failure
\* when the execution failed in its first step
ARPUClockOf(r) ==
  IF r.out.threw THEN r.now ELSE r.out.value.dependencyResults.arpu.calculatedAt

\* the outcome in result is the one the invocation yields when run alone on
\* the snapshot at the same clock readings
AsWhenRunAlone ==
  result # NoResult =>
    result.out =
      IF result.tool = "stripeLTVTool"
      THEN LTVOutcome(result.context, ARPUClockOf(result), result.now)
      ELSE Outcome(result.tool, result.context, result.now)

C21_StatusBreakdown ==
  Returned("stripeActiveSubscribersTool") =>
    LET subs == CurrencyMatching(result.context.currency)
        present == {subs[i].status : i \in 1..Len(subs)}
        breakdown == result.out.value.statusBreakdown
        RECURSIVE Total(_)
        Total(S) == IF S = {} THEN 0
                    ELSE LET s == CHOOSE s \in S : TRUE
                         IN breakdown[s] + Total(S \ {s})
    IN /\ DOMAIN breakdown = present
       /\ \A s \in present :
            breakdown[s] = Cardinality({i \in 1..Len(subs) : subs[i].status = s})
       /\ Total(DOMAIN breakdown) = Len(subs)

\* trials are left out and nothing is active, yet the canceled and the
\* trialing subscription are both in the breakdown
C21_Witness ==
  /\ Returned("stripeActiveSubscribersTool")
  /\ ~result.context.includeTrialSubscriptions
  /\ result.out.value.totalActiveSubscriptions = 0
  /\ DOMAIN result.out.value.statusBreakdown = {"canceled", "trialing"}
  /\ result.out.value.statusBreakdown["canceled"] = 1
  /\ result.out.value.statusBreakdown["trialing"] = 1


\* C22: the ARPU calculator runs the MRR calculation over the same filtered
\* set: for every snapshot, includeTrialSubscriptions and currency, the ARPU
\* calculator's totalMRR, activeSubscriptions and per-subscription customerMRR
\* values equal those returned by the MRR calculator on the same inputs (and
\* one fails when the other does), and the active-subscriber analyzer's
\* totalActiveSubscriptions equals the same count although it applies the
\* currency and active filters in the opposite order.
C22_SameFilteredSet ==
  /\ (result.tool = "stripeARPUTool" /\ ~NoSubscriptionData(snapshot)) =>
       LET mrr == Outcome("stripeMRRTool", result.context, result.now)
       IN /\ mrr.threw = result.out.threw
          /\ ~mrr.threw =>
               LET out == result.out.value
               IN /\ out.totalMRR = mrr.value.totalMRR
                  /\ out.activeSubscriptions = mrr.value.activeSubscriptions
                  /\ Len(out.breakdown) = Len(mrr.value.breakdown)
                  /\ \A i \in 1..Len(out.breakdown) :
                       /\ out.breakdown[i].subscriptionId = mrr.value.breakdown[i].subscriptionId
                       /\ out.breakdown[i].customerMRR = mrr.value.breakdown[i].customerMRR
  /\ Returned("stripeActiveSubscribersTool") =>
       LET mrr == Outcome("stripeMRRTool",
                    [includeTrialSubscriptions |-> result.context.includeTrialSubscriptions,
                     currency |-> result.context.currency], result.now)
       IN /\ result.out.value.totalActiveSubscriptions =
               Len(Survivors(result.context.includeTrialSubscriptions,
                             result.context.currency))
          /\ ~mrr.threw =>
               result.out.value.totalActiveSubscriptions = mrr.value.activeSubscriptions

\* of two active subscriptions the ARPU calculator kept the one with an item
\* in "eur", whose monthly value is 30.00
C22_Witness ==
  /\ Returned("stripeARPUTool")
  /\ result.context.currency = "eur"
  /\ Len(snapshot.data) = 2
  /\ \A i \in 1..2 : snapshot.data[i].status = "active"
  /\ result.out.value.activeSubscriptions = 1
  /\ result.out.value.totalMRR = 3000
  /\ result.out.value.breakdown[1].customerMRR = 3000


\* the entries of the expansion breakdown of the given kind
EntriesOf(changeType) ==
  SelectSeq(result.out.value.expansionBreakdown, LAMBDA e : e.changeType = changeType)

BreakdownTotal ==
  LET entries == result.out.value.expansionBreakdown
  IN SumOf([k \in 1..Len(entries) |-> entries[k].expansionAmount], Len(entries))

\* C24: in every result of the expansion analyzer, netExpansion equals
\* expansionMRR (the tool computes no contraction), and both equal the sum of
\* the expansionAmount values of the expansionBreakdown entries, whose number
\* equals totalUpgrades.  (expansionMRR is in hundredths, the others in
\* thousandths.)
C24_NetEqualsExpansion ==
  Returned("stripeMRRExpansionTool") =>
    /\ result.out.value.netExpansion = result.out.value.expansionMRR * 10
    /\ result.out.value.netExpansion = BreakdownTotal
    /\ result.out.value.expansionMRR * 10 = BreakdownTotal
    /\ Len(result.out.value.expansionBreakdown) = result.out.value.totalUpgrades


\* the customers that enter the calculation of the LTV result: those the
\* ARPU sub-call counted and those in the sets of the churn sub-call
CustomersAnalysed ==
  LET currency == result.context.currency
      periodEnd == result.out.value.period.endDate
      periodStart == result.out.value.period.startDate
      subs == CurrencyMatching(currency)
  IN KnownCustomers(Survivors(result.context.includeTrialSubscriptions, currency))
       \cup CustomersCreatedBetween(currency, 0, periodEnd)
       \cup {subs[i].customer :
               i \in {j \in 1..Len(subs) : CanceledInPeriod(subs[j], periodStart, periodEnd)}}

\* C25: the LTV result's totalCustomers is the total number of unique
\* customers analysed: every customer of the snapshot that enters the ARPU or
\* churn calculation is counted exactly once, and none is counted twice.
C25_TotalCustomersUnique ==
  Returned("stripeLTVTool") =>
    result.out.value.totalCustomers = Cardinality(CustomersAnalysed)


\* C26: for every snapshot and every periodDays >= 1, the churn calculator's
\* churnRate lies between 0 and 100 and its retentionRate between 0 and 100
\* (churned customers never outnumber the base they are divided by), and
\* churnedNewCustomers <= min(churnedCustomersCount, newCustomersInPeriod).
C26_RatesWithinBounds ==
  Returned("stripeChurnRateTool") =>
    LET out == result.out.value
    IN /\ 0 <= out.churnRate /\ out.churnRate <= 100 * 100
       /\ 0 <= out.retentionRate /\ out.retentionRate <= 100 * 100
       /\ out.churnedNewCustomers <= out.churnedCustomersCount
       /\ out.churnedNewCustomers <= out.newCustomersInPeriod


\* C27: in every result of the expansion analyzer, expansionMRR is not
\* negative and does not exceed the starting MRR (the monthly value of the
\* active, currency-filtered subscriptions), so that expansionRate lies
\* between 0 and 100; no subscription contributes more expansion than its own
\* monthly value, also when it yields an 'upgrade' and a 'quantity_increase'
\* entry.  (Rates are in hundredths of a percent, entries in thousandths.)
C27_ExpansionWithinStartingMRR ==
  Returned("stripeMRRExpansionTool") =>
    LET out == result.out.value
        entries == out.expansionBreakdown
        subs == Survivors(FALSE, result.context.currency)
        OfSubscription(id) == SelectSeq(entries, LAMBDA e : e.subscriptionId = id)
        Contribution(id) ==
          SumOf([k \in 1..Len(OfSubscription(id)) |-> OfSubscription(id)[k].expansionAmount],
                Len(OfSubscription(id)))
    IN /\ 0 <= out.expansionMRR
       /\ out.expansionMRR <= StartingMRR(result.context.currency)
       /\ 0 <= out.expansionRate
       /\ out.expansionRate <= 100 * 100
       /\ \A i \in 1..Len(subs) : Contribution(subs[i].id) <= MonthlyValue(subs[i]) * 10


-----------------------------------------------------------------------------
(* Claims about the MCP client wrapper *)

\* C28: the MCP client wrapper is a lazy singleton.  A call of getTools or
\* getToolsets that finds a client uses it and creates none; one that finds
\* no client creates exactly one, on which disconnect has not been called,
\* and uses it; so as long as no disconnect has resolved there is at most
\* one client.  When a disconnect resolves the reference is cleared, and the
\* next getTools or getToolsets therefore creates a fresh client.
C28_LazySingleton ==
  /\ []((\A c \in 1..mcp.created : mcp.disconnects[c] = 0) => mcp.created <= 1)
  /\ [][\A p \in Callers :
          /\ (mcp.calls[p] = Idle /\ mcp'.calls[p].op \in {"getTools", "getToolsets"}) =>
               /\ mcp'.calls[p].client = mcp'.client
               /\ IF mcp.client # Null
                  THEN mcp'.client = mcp.client /\ mcp'.created = mcp.created
                  ELSE /\ mcp'.created = mcp.created + 1
                       /\ mcp'.client = mcp'.created
                       /\ mcp'.disconnects[mcp'.client] = 0
          /\ (/\ mcp.calls[p].op = "disconnect"
              /\ mcp'.calls[p] = Idle
              /\ mcp'.settled.outcome = "resolved") => mcp'.client = Null]_vars

\* after the first client was disconnected, a getTools and a getToolsets
\* call are both in flight on the second client, which the first of them
\* created
C28_Witness ==
  /\ mcp.created = 2
  /\ mcp.client = 2
  /\ mcp.disconnects = <<1, 0>>
  /\ mcp.calls[1].op = "getTools"
  /\ mcp.calls[2].op = "getToolsets"
  /\ mcp.calls[1].client = 2
  /\ mcp.calls[2].client = 2

\* C29: under any interleaving of getTools, getToolsets and disconnect, a
\* disconnect clears only the client it disconnected: every client that is
\* no longer the module's client has been disconnected, disconnect is called
\* at most once on a client, and no getTools or getToolsets call is made on
\* a client on which disconnect has been called.
C29_DisconnectClearsOwnClient ==
  /\ \A c \in 1..mcp.created : c # mcp.client => mcp.disconnects[c] > 0
  /\ \A c \in 1..mcp.created : mcp.disconnects[c] <= 1
  /\ \A p \in Callers :
       mcp.calls[p].op \in {"getTools", "getToolsets"} => ~mcp.calls[p].stale


-----------------------------------------------------------------------------
(* Claims about the workflows *)

\* C30: in the MRR, ARPU, churn-rate and LTV workflows generate-explanation
\* runs only on the result the calculation step produced, never fails the
\* run and leaves the numbers alone: its output has every field of the
\* calculation step's output with the same value, plus an explanation that
\* is not empty; when the agent call throws or answers with an empty text
\* the explanation is the step's default text.
C30_ExplanationNeverFailsNorAlters ==
  /\ run.step = "failed" => run.failedStep # "generate-explanation"
  /\ run.step \in {"generate-explanation", "success"} =>
       \E now \in ClockReadings, later \in ClockReadings :
         calculateStep(run.workflow, run.fetched, now, later) = Return(run.raw)
  /\ run.step = "success" =>
       /\ DOMAIN run.result = DOMAIN run.raw \cup {"explanation"}
       /\ \A k \in DOMAIN run.raw : run.result[k] = run.raw[k]
       /\ run.result.explanation.text # ""
       /\ (run.response.threw \/ run.response.text = "") =>
            run.result.explanation.text \in
              {DefaultExplanation(run.workflow),
               FallbackExplanation(run.workflow, run.raw).text}

\* the agent call of an LTV run threw: the run succeeded with the LTV of
\* 36.00 the calculation step returned and the explanation of the catch block
C30_Witness ==
  /\ run.step = "success"
  /\ run.workflow = "ltv-calculation-workflow"
  /\ run.response.threw
  /\ run.raw.ltv = 3600
  /\ run.result.ltv = 3600
  /\ run.result.subscriptionsFetched = 2
  /\ run.result.explanation = FallbackExplanation(run.workflow, run.raw)

=============================================================================
